---- MODULE Spec2Model ----
(***************************************************************************)
(* Set-operation planner of src/backend/optimizer/prep/prepunion.c.        *)
(*                                                                         *)
(* The planner is a recursive descent over the parsed UNION / INTERSECT /  *)
(* EXCEPT tree.  Every C function is an operator of the same name that     *)
(* returns a record holding the function's result, its output parameters   *)
(* and the PlannerInfo fields it may have changed.  ereport(ERROR) is the  *)
(* field err, which every caller propagates.                               *)
(***************************************************************************)
EXTENDS Integers, Sequences, FiniteSets, TLC

VARIABLES
    parse,            \* root->parse->setOperations, the tree to plan
    rtable,           \* root->simple_rte_array: rtindex -> leaf subquery
    enable_hashagg,   \* GUC
    work_mem,         \* GUC, in kilobytes
    cost_model,       \* what cost_agg / cost_sort / cost_group answer
    root,             \* the PlannerInfo fields the set-op planner touches
    stack_garbage,    \* contents of dLeftGroups / dRightGroups before any write
    call,             \* arguments of a direct call of choose_hashed_setop
    pc,               \* "start" before the operation ran, "done" after
    result,           \* what the operation returned
    catalog,          \* pg_class / pg_inherits / pg_attribute rows by relation OID
    locks             \* relation locks this transaction holds, by OID and mode

vars == <<parse, rtable, enable_hashagg, work_mem, cost_model, root,
          stack_garbage, call, pc, result, catalog, locks>>

(***************************************************************************)
(* Bounds of the model.                                                    *)
(***************************************************************************)
MaxLeaves == 4        \* leaf subqueries of a set-operation tree
MaxCols == 1          \* declared output columns of a set-operation tree

(***************************************************************************)
(* Small helpers on sequences and numbers.                                 *)
(***************************************************************************)
Min(a, b) == IF a < b THEN a ELSE b

RECURSIVE SumSeq(_)
SumSeq(s) == IF s = <<>> THEN 0 ELSE Head(s) + SumSeq(Tail(s))

NoError == "none"

(***************************************************************************)
(* Type identifiers and the catalog facts the planner looks up.            *)
(***************************************************************************)
InvalidOid == "InvalidOid"
INT4OID == "int4"
NUMERICOID == "numeric"

\* get_typavgwidth: a fixed-length type's typlen, 32 for a varlena without typmod
get_typavgwidth(typid) == IF typid = INT4OID THEN 4 ELSE 32

\* can_coerce_type with COERCION_IMPLICIT: int4 widens to numeric, never back
can_coerce_type(inputTypeId, targetTypeId) ==
    \/ inputTypeId = targetTypeId
    \/ inputTypeId = INT4OID /\ targetTypeId = NUMERICOID

(***************************************************************************)
(* Expression nodes: Var, Const, FuncExpr (an implicit cast), RelabelType. *)
(***************************************************************************)
makeVar(varno, varattno, vartype, vartypmod, varcollid, varlevelsup) ==
    [tag |-> "Var", varno |-> varno, varattno |-> varattno, vartype |-> vartype,
     vartypmod |-> vartypmod, varcollid |-> varcollid, varlevelsup |-> varlevelsup]

makeConst(consttype, consttypmod, constcollid, constvalue) ==
    [tag |-> "Const", consttype |-> consttype, consttypmod |-> consttypmod,
     constcollid |-> constcollid, constvalue |-> constvalue]

makeRelabelType(arg, rtype, rtypmod, rcollid) ==
    [tag |-> "RelabelType", arg |-> arg, resulttype |-> rtype,
     resulttypmod |-> rtypmod, resultcollid |-> rcollid]

exprType(expr) ==
    CASE expr.tag = "Var" -> expr.vartype
      [] expr.tag = "Const" -> expr.consttype
      [] expr.tag = "FuncExpr" -> expr.funcresulttype
      [] expr.tag = "RelabelType" -> expr.resulttype

exprTypmod(expr) ==
    CASE expr.tag = "Var" -> expr.vartypmod
      [] expr.tag = "Const" -> expr.consttypmod
      [] expr.tag = "FuncExpr" -> -1
      [] expr.tag = "RelabelType" -> expr.resulttypmod

exprCollation(expr) ==
    CASE expr.tag = "Var" -> expr.varcollid
      [] expr.tag = "Const" -> expr.constcollid
      [] expr.tag = "FuncExpr" -> expr.funccollid
      [] expr.tag = "RelabelType" -> expr.resultcollid

\* coerce_to_common_type: the node itself when the type already matches, an
\* implicit cast when one exists, else the "could not convert type" error
coerce_to_common_type(node, targetTypeId, context) ==
    IF exprType(node) = targetTypeId
    THEN [err |-> NoError, node |-> node]
    ELSE IF can_coerce_type(exprType(node), targetTypeId)
    THEN [err |-> NoError,
          node |-> [tag |-> "FuncExpr", arg |-> node,
                    funcresulttype |-> targetTypeId, funccollid |-> InvalidOid]]
    ELSE [err |-> context \o " could not convert type", node |-> node]

makeTargetEntry(expr, resno, resname, resjunk) ==
    [expr |-> expr, resno |-> resno, resname |-> resname, resjunk |-> resjunk,
     ressortgroupref |-> 0]

(***************************************************************************)
(* Column lists (target lists).                                            *)
(***************************************************************************)
IsNonJunk(tle) == ~tle.resjunk

NonJunk(tlist) == SelectSeq(tlist, IsNonJunk)

\* the first entry of a sequence of per-column results that failed, if any
RECURSIVE FirstErr(_)
FirstErr(s) ==
    IF s = <<>> THEN NoError
    ELSE IF Head(s).err # NoError THEN Head(s).err ELSE FirstErr(Tail(s))

\* the entry built without the sort/group reference of line 1211
setop_tlist_tle_noref(err, expr, inputtle, reftle, resno) ==
    [err |-> err,
     asserts_ok |-> /\ inputtle.resno = resno
                    /\ reftle.resno = resno
                    /\ ~inputtle.resjunk
                    /\ ~reftle.resjunk,
     tle |-> makeTargetEntry(expr, resno, reftle.resname, FALSE)]

\* lines 1201-1213: the entry, tagged with its own position
setop_tlist_tle(err, expr, inputtle, reftle, resno) ==
    [err |-> err,
     asserts_ok |-> /\ inputtle.resno = resno
                    /\ reftle.resno = resno
                    /\ ~inputtle.resjunk
                    /\ ~reftle.resjunk,
     tle |-> [makeTargetEntry(expr, resno, reftle.resname, FALSE)
                  EXCEPT !.ressortgroupref = resno]]

\* the collation forced without looking at the one the expression exposes
setop_tlist_relabel_always(colColl, co, inputtle, reftle, resno) ==
    setop_tlist_tle(co.err,
                    makeRelabelType(co.node, exprType(co.node), exprTypmod(co.node),
                                    colColl),
                    inputtle, reftle, resno)

\* lines 1179-1199: a RelabelType on top when the collation differs
setop_tlist_relabel(colColl, co, inputtle, reftle, resno) ==
    setop_tlist_tle(co.err,
                    IF exprCollation(co.node) # colColl
                    THEN makeRelabelType(co.node, exprType(co.node),
                                         exprTypmod(co.node), colColl)
                    ELSE co.node,
                    inputtle, reftle, resno)

\* lines 1165-1178: a coercion on top when the type differs
setop_tlist_coerce(colType, colColl, expr, inputtle, reftle, resno) ==
    setop_tlist_relabel(colColl,
                        IF exprType(expr) # colType
                        THEN coerce_to_common_type(expr, colType,
                                                   "UNION/INTERSECT/EXCEPT")
                        ELSE [err |-> NoError, node |-> expr],
                        inputtle, reftle, resno)

\* one iteration of the forthree loop of generate_setop_tlist; resno is the
\* loop counter, which starts at 1 and is incremented once per iteration
setop_tlist_entry(colType, colColl, varno, hack_constants, inputtle, reftle, resno) ==
    setop_tlist_coerce(colType, colColl,
                       IF hack_constants /\ inputtle.expr.tag = "Const"
                       THEN inputtle.expr
                       ELSE makeVar(varno, inputtle.resno, exprType(inputtle.expr),
                                    exprTypmod(inputtle.expr),
                                    exprCollation(inputtle.expr), 0),
                       inputtle, reftle, resno)

\* lines 1216-1234: the junk flag column after the n columns built by the loop
setop_tlist_flag(flag, n, cols) ==
    [err |-> FirstErr(cols),
     asserts_ok |-> \A i \in 1..n : cols[i].asserts_ok,
     tlist |-> IF flag >= 0
               THEN Append([i \in 1..n |-> cols[i].tle],
                           makeTargetEntry(makeConst(INT4OID, -1, InvalidOid, flag),
                                           n + 1, "flag", TRUE))
               ELSE [i \in 1..n |-> cols[i].tle]]

\* lines 1128-1214: forthree stops at the shortest of its three lists, and
\* the reference list is chased by hand
setop_tlist_loop(colTypes, colCollations, flag, varno, hack_constants, input_tlist, refnames_tlist, n) ==
    setop_tlist_flag(flag, n,
        [i \in 1..n |->
            IF i > Len(refnames_tlist)
            THEN [err |-> "SIGSEGV", asserts_ok |-> FALSE, tle |-> input_tlist[i]]
            ELSE setop_tlist_entry(colTypes[i], colCollations[i], varno,
                                   hack_constants, input_tlist[i],
                                   refnames_tlist[i], i)])

generate_setop_tlist(colTypes, colCollations, flag, varno, hack_constants, input_tlist, refnames_tlist) ==
    setop_tlist_loop(colTypes, colCollations, flag, varno, hack_constants,
                     input_tlist, refnames_tlist,
                     Min(Len(colTypes), Min(Len(colCollations), Len(input_tlist))))

\* lines 1293-1307: what one child's column does to the typmod found so far
\* a child of another type leaves the typmod found so far in place
append_typmod_step_keep(colType, subtle, k, before) ==
    IF exprType(subtle.expr) = colType
    THEN IF k = 1 THEN exprTypmod(subtle.expr)
         ELSE IF exprTypmod(subtle.expr) # before THEN -1 ELSE before
    ELSE IF k = 1 THEN -1 ELSE before

append_typmod_step(colType, subtle, k, before) ==
    IF exprType(subtle.expr) = colType
    THEN IF k = 1 THEN exprTypmod(subtle.expr)
         ELSE IF exprTypmod(subtle.expr) # before THEN -1 ELSE before
    ELSE -1

\* the typmod loop of generate_append_tlist for one column: the first child
\* sets it, every later child can only keep it or force it to -1
RECURSIVE append_typmod(_, _, _, _)
append_typmod(colType, colindex, input_tlists, k) ==
    IF k = 0 THEN -1
    ELSE append_typmod_step(colType, NonJunk(input_tlists[k])[colindex], k,
                            append_typmod(colType, colindex, input_tlists, k - 1))

\* lines 1317-1366: the Append's columns, and the junk flag column
append_tlist_build(colTypes, colCollations, flag, input_tlists, refnames_tlist, n, colTypmods) ==
    [asserts_ok |-> /\ \A k \in 1..Len(input_tlists) :
                          Len(NonJunk(input_tlists[k])) = Len(colTypes)
                    /\ \A r \in 1..n : /\ refnames_tlist[r].resno = r
                                       /\ ~refnames_tlist[r].resjunk,
     tlist |->
        [resno \in 1..(IF flag THEN n + 1 ELSE n) |->
            IF resno <= n
            THEN [makeTargetEntry(makeVar(0, resno, colTypes[resno],
                                          colTypmods[resno], colCollations[resno], 0),
                                  resno, refnames_tlist[resno].resname, FALSE)
                      EXCEPT !.ressortgroupref = resno]
            ELSE makeTargetEntry(makeVar(0, resno, INT4OID, -1, InvalidOid, 0),
                                 resno, "flag", TRUE)]]

generate_append_tlist(colTypes, colCollations, flag, input_tlists, refnames_tlist) ==
    append_tlist_build(colTypes, colCollations, flag, input_tlists, refnames_tlist,
                       Min(Len(colTypes), Min(Len(colCollations), Len(refnames_tlist))),
                       [c \in 1..Len(colTypes) |->
                           append_typmod(colTypes[c], c, input_tlists,
                                         Len(input_tlists))])

\* lines 1390-1412: the k-th non-junk column takes the k-th clause
setop_grouplist_assign(gc, targetlist, nj) ==
    [err |-> IF Len(nj) > Len(gc) THEN "SIGSEGV" ELSE NoError,
     asserts_ok |->
         /\ \A i \in 1..Len(targetlist) :
               IF targetlist[i].resjunk
               THEN targetlist[i].ressortgroupref = 0
               ELSE targetlist[i].ressortgroupref = targetlist[i].resno
         /\ Len(nj) = Len(gc)
         /\ \A j \in 1..Len(gc) : gc[j].tleSortGroupRef = 0,
     grouplist |-> [j \in 1..Len(gc) |->
                      IF j <= Len(nj)
                      THEN [gc[j] EXCEPT !.tleSortGroupRef = nj[j].ressortgroupref]
                      ELSE gc[j]]]

generate_setop_grouplist(op, targetlist) ==
    setop_grouplist_assign(op.groupClauses, targetlist, NonJunk(targetlist))

\* tlist_same_datatypes / tlist_same_collations of tlist.c; prop is exprType
\* or exprCollation, named by a string
ExprProp(expr, prop) == IF prop = "type" THEN exprType(expr) ELSE exprCollation(expr)

RECURSIVE tlist_same(_, _, _, _)
tlist_same(tlist, cols, junkOK, prop) ==
    IF tlist = <<>> THEN cols = <<>>
    ELSE IF Head(tlist).resjunk
    THEN junkOK /\ tlist_same(Tail(tlist), cols, junkOK, prop)
    ELSE /\ cols # <<>>
         /\ ExprProp(Head(tlist).expr, prop) = Head(cols)
         /\ tlist_same(Tail(tlist), Tail(cols), junkOK, prop)

tlist_same_datatypes(tlist, colTypes, junkOK) ==
    tlist_same(tlist, colTypes, junkOK, "type")

tlist_same_collations(tlist, colCollations, junkOK) ==
    tlist_same(tlist, colCollations, junkOK, "collation")

(***************************************************************************)
(* Hash-vs-sort chooser.                                                   *)
(*                                                                         *)
(* Row counts and costs are doubles in the code and naturals here.  A      *)
(* tuple fraction is a rational num/den; den = 0 with num > 0 is the       *)
(* infinity a division by a zero row estimate yields.                      *)
(***************************************************************************)
MAXIMUM_ALIGNOF == 8
SizeofMinimalTupleHeader == 23

MAXALIGN(len) == ((len + MAXIMUM_ALIGNOF - 1) \div MAXIMUM_ALIGNOF) * MAXIMUM_ALIGNOF

grouping_is_sortable(groupClause) ==
    \A i \in 1..Len(groupClause) : groupClause[i].sortop # InvalidOid

grouping_is_hashable(groupClause) ==
    \A i \in 1..Len(groupClause) : groupClause[i].hashable

\* compare_path_costs(path1, path2, TOTAL_COST)
compare_path_costs(path1, path2) ==
    IF path1.total_cost < path2.total_cost THEN -1
    ELSE IF path1.total_cost > path2.total_cost THEN 1
    ELSE IF path1.startup_cost < path2.startup_cost THEN -1
    ELSE IF path1.startup_cost > path2.startup_cost THEN 1
    ELSE 0

\* startup_cost + fraction * (total_cost - startup_cost), scaled by fraction.den
FractionalCost(path, fraction) ==
    fraction.den * path.startup_cost
        + fraction.num * (path.total_cost - path.startup_cost)

compare_fractional_path_costs(path1, path2, fraction) ==
    IF fraction.num <= 0 \/ fraction.num >= fraction.den
    THEN compare_path_costs(path1, path2)
    ELSE IF FractionalCost(path1, fraction) < FractionalCost(path2, fraction) THEN -1
    ELSE IF FractionalCost(path1, fraction) > FractionalCost(path2, fraction) THEN 1
    ELSE 0

\* unusable operators fall back to sorting instead of raising the error
setop_strategies_sort_fallback(groupClauses) ==
    LET can_sort == grouping_is_sortable(groupClauses)
        can_hash == grouping_is_hashable(groupClauses)
    IN  IF can_hash /\ can_sort THEN "choice"
        ELSE IF can_hash THEN "hash"
        ELSE "sort"

\* lines 1020-1036: which strategies the grouping operators allow
setop_strategies(groupClauses) ==
    LET can_sort == grouping_is_sortable(groupClauses)
        can_hash == grouping_is_hashable(groupClauses)
    IN  IF can_hash /\ can_sort THEN "choice"
        ELSE IF can_hash THEN "hash"
        ELSE IF can_sort THEN "sort"
        ELSE "error"

\* the hash entry counted without the tuple header
setop_hashtable_overflows_noheader(input_path, dNumGroups) ==
    MAXALIGN(input_path.pathtarget.width) * dNumGroups > work_mem * 1024

\* lines 1046-1048: the hash table does not look like it fits into work_mem
setop_hashtable_overflows(input_path, dNumGroups) ==
    LET hashentrysize == MAXALIGN(input_path.pathtarget.width)
                            + MAXALIGN(SizeofMinimalTupleHeader)
    IN  hashentrysize * dNumGroups > work_mem * 1024

\* lines 1085-1087: an absolute row count (LIMIT) becomes a fraction
setop_tuple_fraction(tuple_fraction, dNumOutputRows) ==
    IF tuple_fraction.num >= tuple_fraction.den
    THEN [num |-> tuple_fraction.num, den |-> tuple_fraction.den * dNumOutputRows]
    ELSE tuple_fraction

\* hashing wins a tie
setop_hashed_is_cheaper_or_equal(hashed_p, sorted_p, tuple_fraction) ==
    compare_fractional_path_costs(hashed_p, sorted_p, tuple_fraction) <= 0

\* lines 1089-1095
setop_hashed_is_cheaper(hashed_p, sorted_p, tuple_fraction) ==
    compare_fractional_path_costs(hashed_p, sorted_p, tuple_fraction) < 0

\* the result of choose_hashed_setop: returned is FALSE when ereport(ERROR)
\* left the function, and use_hash then means nothing
ChooserReturn(use_hash) ==
    [err |-> NoError, errcode |-> NoError, returned |-> TRUE, use_hash |-> use_hash]

ChooserError(errcode, msg) ==
    [err |-> msg, errcode |-> errcode, returned |-> FALSE, use_hash |-> FALSE]

\* enable_hashagg tested before the operators are looked at
choose_hashed_setop_guc_first(proot, groupClauses, input_path, dNumGroups, dNumOutputRows, construct) ==
    LET strategies == setop_strategies(groupClauses)
        tuple_fraction == setop_tuple_fraction(proot.tuple_fraction, dNumOutputRows)
    IN  IF strategies = "error"
        THEN ChooserError("ERRCODE_FEATURE_NOT_SUPPORTED",
                          "could not implement " \o construct)
        ELSE IF ~enable_hashagg THEN ChooserReturn(FALSE)
        ELSE IF strategies = "hash" THEN ChooserReturn(TRUE)
        ELSE IF strategies = "sort" THEN ChooserReturn(FALSE)
        ELSE IF setop_hashtable_overflows(input_path, dNumGroups)
        THEN ChooserReturn(FALSE)
        ELSE ChooserReturn(setop_hashed_is_cheaper(cost_model.hashed_p,
                                                   cost_model.sorted_p,
                                                   tuple_fraction))

choose_hashed_setop(proot, groupClauses, input_path, dNumGroups, dNumOutputRows, construct) ==
    LET strategies == setop_strategies(groupClauses)
        \* cost_agg over the input, and cost_sort followed by cost_group
        hashed_p == cost_model.hashed_p
        sorted_p == cost_model.sorted_p
        tuple_fraction == setop_tuple_fraction(proot.tuple_fraction, dNumOutputRows)
    IN  IF strategies = "hash" THEN ChooserReturn(TRUE)
        ELSE IF strategies = "sort" THEN ChooserReturn(FALSE)
        ELSE IF strategies = "error"
        THEN ChooserError("ERRCODE_FEATURE_NOT_SUPPORTED",
                          "could not implement " \o construct)
        ELSE IF ~enable_hashagg THEN ChooserReturn(FALSE)
        ELSE IF setop_hashtable_overflows(input_path, dNumGroups)
        THEN ChooserReturn(FALSE)
        ELSE ChooserReturn(setop_hashed_is_cheaper(hashed_p, sorted_p, tuple_fraction))

(***************************************************************************)
(* Paths.  The constructors of pathnode.c are modelled by the fields the   *)
(* set-operation planner passes to them and reads back (rows, width).      *)
(***************************************************************************)
NoPath == [pathtype |-> "none"]

RECURSIVE TlistWidth(_)
TlistWidth(tlist) ==
    IF tlist = <<>> THEN 0
    ELSE get_typavgwidth(exprType(Head(tlist).expr)) + TlistWidth(Tail(tlist))

create_pathtarget(tlist) ==
    [exprs |-> [i \in 1..Len(tlist) |-> tlist[i].expr], width |-> TlistWidth(tlist)]

\* subquery_planner + get_cheapest_fractional_path for one leaf: the leaf's
\* path remembers the tuple fraction and the non-recursive path it was
\* planned under; a distributed leaf gets a RemoteSubplan on top
plan_leaf_subquery(proot, rtindex) ==
    LET rte == rtable[rtindex]
        subpath == [pathtype |-> "Subquery", rtindex |-> rtindex, rows |-> rte.rows,
                    tuple_fraction |-> proot.tuple_fraction,
                    non_recursive_path |-> proot.non_recursive_path]
    IN  IF rte.distributed
        THEN [pathtype |-> "RemoteSubplan", subpath |-> subpath, rows |-> rte.rows]
        ELSE subpath

create_subqueryscan_path(rtindex, subpath) ==
    [pathtype |-> "SubqueryScan", rtindex |-> rtindex, subpath |-> subpath,
     rows |-> subpath.rows, pathtarget |-> create_pathtarget(<<>>)]

create_append_path(subpaths) ==
    [pathtype |-> "Append", subpaths |-> subpaths,
     rows |-> SumSeq([i \in 1..Len(subpaths) |-> subpaths[i].rows]),
     pathtarget |-> create_pathtarget(<<>>)]

create_agg_path(subpath, target, aggstrategy, groupClause, numGroups) ==
    [pathtype |-> "Agg", subpath |-> subpath, aggstrategy |-> aggstrategy,
     groupClause |-> groupClause, numGroups |-> numGroups, rows |-> numGroups,
     pathtarget |-> target]

create_sort_path(subpath, groupList) ==
    [pathtype |-> "Sort", subpath |-> subpath, pathkeys |-> groupList,
     rows |-> subpath.rows, pathtarget |-> subpath.pathtarget]

create_upper_unique_path(subpath, numCols, numGroups) ==
    [pathtype |-> "Unique", subpath |-> subpath, numkeys |-> numCols,
     rows |-> numGroups, pathtarget |-> subpath.pathtarget]

create_setop_path(subpath, cmd, strategy, distinctList, flagColIdx, firstFlag, numGroups, outputRows) ==
    [pathtype |-> "SetOp", subpath |-> subpath, cmd |-> cmd, strategy |-> strategy,
     distinctList |-> distinctList, flagColIdx |-> flagColIdx,
     firstFlag |-> firstFlag, numGroups |-> numGroups, rows |-> outputRows,
     pathtarget |-> subpath.pathtarget]

create_recursiveunion_path(leftpath, rightpath, target, distinctList, wtParam, numGroups) ==
    [pathtype |-> "RecursiveUnion", leftpath |-> leftpath, rightpath |-> rightpath,
     distinctList |-> distinctList, wtParam |-> wtParam, numGroups |-> numGroups,
     rows |-> leftpath.rows + 10 * rightpath.rows, pathtarget |-> target]

is_projection_capable_path(path) ==
    path.pathtype \in {"SubqueryScan", "Agg", "Projection"}

\* apply_projection_to_path: a projecting path gets the new target in place,
\* any other path gets a ProjectionPath on top
apply_projection_to_path(path, target) ==
    IF is_projection_capable_path(path)
    THEN [path EXCEPT !.pathtarget = target]
    ELSE [pathtype |-> "Projection", subpath |-> path, rows |-> path.rows,
          pathtarget |-> target]

(***************************************************************************)
(* The recursive descent.  Every function returns                          *)
(*   err          NoError, or the message of the error it raised           *)
(*   asserts_ok   no Assert() of an assert-enabled build failed            *)
(*   uninit_read  some dLeftGroups / dRightGroups was read before written  *)
(*   path, tlist  the returned path and *pTargetList                       *)
(*   numGroupsSet, numGroups   whether *pNumGroups was written, and what   *)
(*   root         the PlannerInfo as the function leaves it                *)
(*   calls        one entry per call made below it, in order of return     *)
(* The arguments of list_concat() in generate_union_path and               *)
(* recurse_union_children are two recursive calls whose order the C       *)
(* standard leaves open; each call hands root back as it found it, so the  *)
(* model threads root through the left call first.                         *)
(***************************************************************************)
ZeroFraction == [num |-> 0, den |-> 1]

Failed(err, proot) ==
    [err |-> err, asserts_ok |-> TRUE, uninit_read |-> FALSE, path |-> NoPath,
     tlist |-> <<>>, numGroupsSet |-> FALSE, numGroups |-> 0, root |-> proot,
     calls |-> <<>>]

FailedList(err, proot) ==
    [err |-> err, asserts_ok |-> TRUE, uninit_read |-> FALSE, pathlist |-> <<>>,
     tlist_list |-> <<>>, root |-> proot, calls |-> <<>>]

IsSetOperationStmt(node) == node.tag = "SetOperationStmt"

IsRangeTblRef(node) == node.tag = "RangeTblRef"

\* the column type lists compared as pointers: no child shares the top's list
is_same_union_by_pointer(op, top_union) ==
    /\ op.op = top_union.op
    /\ (op.all = top_union.all \/ op.all)
    /\ op = top_union

\* lines 895-897: the child is the same kind of UNION as the top one
is_same_union(op, top_union) ==
    /\ op.op = top_union.op
    /\ (op.all = top_union.all \/ op.all)
    /\ op.colTypes = top_union.colTypes

\* line 686: a plain UNION needs its duplicates removed
union_needs_unique(op) == ~op.all

\* the smaller input first for EXCEPT too
nonunion_order_smaller_first(op, l, r, dLeftGroups, dRightGroups) ==
    IF dLeftGroups <= dRightGroups
    THEN [pathlist |-> <<l.path, r.path>>, tlist_list |-> <<l.tlist, r.tlist>>,
          firstFlag |-> 0]
    ELSE [pathlist |-> <<r.path, l.path>>, tlist_list |-> <<r.tlist, l.tlist>>,
          firstFlag |-> 1]

\* the branches reordered, but the first-input flag left at the left one's
nonunion_order_stale_flag(op, l, r, dLeftGroups, dRightGroups) ==
    IF op.op = "EXCEPT" \/ dLeftGroups <= dRightGroups
    THEN [pathlist |-> <<l.path, r.path>>, tlist_list |-> <<l.tlist, r.tlist>>,
          firstFlag |-> 0]
    ELSE [pathlist |-> <<r.path, l.path>>, tlist_list |-> <<r.tlist, l.tlist>>,
          firstFlag |-> 0]

\* lines 759-770: which branch goes first under the Append
nonunion_order(op, l, r, dLeftGroups, dRightGroups) ==
    IF op.op = "EXCEPT" \/ dLeftGroups <= dRightGroups
    THEN [pathlist |-> <<l.path, r.path>>, tlist_list |-> <<l.tlist, r.tlist>>,
          firstFlag |-> 0]
    ELSE [pathlist |-> <<r.path, l.path>>, tlist_list |-> <<r.tlist, l.tlist>>,
          firstFlag |-> 1]

\* the smaller estimate for EXCEPT too
nonunion_estimates_smaller(op, lpath, rpath, dLeftGroups, dRightGroups) ==
    [dNumGroups |-> Min(dLeftGroups, dRightGroups),
     dNumOutputRows |-> IF op.all THEN Min(lpath.rows, rpath.rows)
                        ELSE Min(dLeftGroups, dRightGroups)]

\* lines 809-818: the group and output-row estimates of INTERSECT / EXCEPT
nonunion_estimates(op, lpath, rpath, dLeftGroups, dRightGroups) ==
    IF op.op = "EXCEPT"
    THEN [dNumGroups |-> dLeftGroups,
          dNumOutputRows |-> IF op.all THEN lpath.rows ELSE dLeftGroups]
    ELSE [dNumGroups |-> Min(dLeftGroups, dRightGroups),
          dNumOutputRows |-> IF op.all THEN Min(lpath.rows, rpath.rows)
                             ELSE Min(dLeftGroups, dRightGroups)]

\* lines 839-851
setop_cmd(op) ==
    IF op.op = "INTERSECT"
    THEN (IF op.all THEN "SETOPCMD_INTERSECT_ALL" ELSE "SETOPCMD_INTERSECT")
    ELSE (IF op.all THEN "SETOPCMD_EXCEPT_ALL" ELSE "SETOPCMD_EXCEPT")

\* log entries of the column-list builders
TlistCall(fn, ncols, hasFlag, tlist) ==
    [fn |-> fn, ncols |-> ncols, hasFlag |-> hasFlag, tlist |-> tlist]

GrouplistCall(op, targetlist, gl) ==
    [fn |-> "generate_setop_grouplist", op |-> op, targetlist |-> targetlist,
     asserts_ok |-> gl.asserts_ok, grouplist |-> gl.grouplist]

\* lines 967-998: a hashed Agg, or a Unique over a Sort
make_union_unique_build(op, path, tlist, gl, ch) ==
    IF ch.err # NoError
    THEN [err |-> ch.err, asserts_ok |-> gl.asserts_ok, path |-> path,
          calls |-> <<GrouplistCall(op, tlist, gl)>>]
    ELSE [err |-> NoError, asserts_ok |-> gl.asserts_ok,
          path |-> IF ch.use_hash
                   THEN create_agg_path(path, create_pathtarget(tlist), "AGG_HASHED",
                                        gl.grouplist, path.rows)
                   ELSE create_upper_unique_path(
                            [create_sort_path(path, gl.grouplist)
                                 EXCEPT !.pathtarget = create_pathtarget(tlist)],
                            Len(gl.grouplist), path.rows),
          calls |-> <<GrouplistCall(op, tlist, gl)>>]

\* lines 950-965: punt if there is nothing to group on, else choose
make_union_unique_choose(op, path, tlist, proot, gl) ==
    IF gl.err # NoError
    THEN [err |-> gl.err, asserts_ok |-> FALSE, path |-> path,
          calls |-> <<GrouplistCall(op, tlist, gl)>>]
    ELSE IF gl.grouplist = <<>>
    THEN [err |-> NoError, asserts_ok |-> gl.asserts_ok, path |-> path,
          calls |-> <<GrouplistCall(op, tlist, gl)>>]
    ELSE make_union_unique_build(op, path, tlist, gl,
             choose_hashed_setop(proot, gl.grouplist, path, path.rows, path.rows,
                                 "UNION"))

make_union_unique(op, path, tlist, proot) ==
    make_union_unique_choose(op, path, tlist, proot,
                             generate_setop_grouplist(op, tlist))

RECURSIVE recurse_set_operations(_, _, _, _, _, _, _, _)
RECURSIVE generate_union_path(_, _, _, _)
RECURSIVE generate_nonunion_path(_, _, _, _)
RECURSIVE recurse_union_children(_, _, _, _)

\* lines 342-401: the scan of a leaf subquery, its column list and its
\* group estimate
recurse_set_operations_leaf(setOp, proot, colTypes, flag, wantNumGroups, rte, subpath, tl) ==
    IF tl.err # NoError THEN Failed(tl.err, proot)
    ELSE [err |-> NoError, asserts_ok |-> tl.asserts_ok,
          uninit_read |-> FALSE,
          path |-> apply_projection_to_path(
                       create_subqueryscan_path(setOp.rtindex, subpath),
                       create_pathtarget(tl.tlist)),
          tlist |-> tl.tlist,
          numGroupsSet |-> wantNumGroups,
          numGroups |-> IF ~wantNumGroups THEN 0
                        ELSE IF rte.grouped THEN subpath.rows
                        ELSE rte.ndistinct,
          root |-> proot,
          calls |-> <<TlistCall("generate_setop_tlist", Len(colTypes), flag >= 0,
                                tl.tlist)>>]

\* lines 437-447: the projection to the caller's column list
recurse_set_operations_project(sub, colTypes, flag, tl) ==
    IF tl.err # NoError THEN Failed(tl.err, sub.root)
    ELSE [sub EXCEPT
             !.asserts_ok = sub.asserts_ok /\ tl.asserts_ok,
             !.tlist = tl.tlist,
             !.path = apply_projection_to_path(sub.path, create_pathtarget(tl.tlist)),
             !.calls = Append(sub.calls,
                              TlistCall("generate_setop_tlist", Len(colTypes),
                                        flag >= 0, tl.tlist))]

\* lines 420-449: project when a flag is wanted or the columns differ
recurse_set_operations_setop(sub, colTypes, colCollations, junkOK, flag, refnames_tlist) ==
    IF sub.err # NoError THEN sub
    ELSE IF \/ flag >= 0
            \/ ~tlist_same_datatypes(sub.tlist, colTypes, junkOK)
            \/ ~tlist_same_collations(sub.tlist, colCollations, junkOK)
    THEN recurse_set_operations_project(sub, colTypes, flag,
             generate_setop_tlist(colTypes, colCollations, flag, 0, FALSE,
                                  sub.tlist, refnames_tlist))
    ELSE sub

recurse_set_operations(setOp, proot, colTypes, colCollations, junkOK, flag, refnames_tlist, wantNumGroups) ==
    IF IsRangeTblRef(setOp)
    THEN recurse_set_operations_leaf(setOp, proot, colTypes, flag, wantNumGroups,
             rtable[setOp.rtindex],
             plan_leaf_subquery(proot, setOp.rtindex),
             generate_setop_tlist(colTypes, colCollations, flag, setOp.rtindex, TRUE,
                                  rtable[setOp.rtindex].processed_tlist,
                                  refnames_tlist))
    ELSE IF IsSetOperationStmt(setOp)
    THEN recurse_set_operations_setop(
             IF setOp.op = "UNION"
             THEN generate_union_path(setOp, proot, refnames_tlist, wantNumGroups)
             ELSE generate_nonunion_path(setOp, proot, refnames_tlist, wantNumGroups),
             colTypes, colCollations, junkOK, flag, refnames_tlist)
    ELSE Failed("unrecognized node type", proot)

\* lines 689-700: restore tuple_fraction and hand the path back
generate_union_path_return(op, proot, wantNumGroups, l, r, app, uniq, root1) ==
    IF uniq.err # NoError THEN Failed(uniq.err, r.root)
    ELSE [err |-> NoError,
          asserts_ok |-> /\ l.asserts_ok /\ r.asserts_ok
                         /\ app.asserts_ok /\ uniq.asserts_ok,
          uninit_read |-> l.uninit_read \/ r.uninit_read,
          path |-> uniq.path,
          tlist |-> app.tlist,
          numGroupsSet |-> wantNumGroups,
          numGroups |-> IF wantNumGroups THEN uniq.path.rows ELSE 0,
          root |-> root1,
          calls |-> l.calls \o r.calls
                    \o <<TlistCall("generate_append_tlist", Len(op.colTypes),
                                   FALSE, app.tlist)>>
                    \o uniq.calls
                    \o <<[fn |-> "generate_union_path", op |-> op,
                          path |-> uniq.path, tlist |-> app.tlist,
                          root_in |-> proot, root_out |-> root1,
                          wantNumGroups |-> wantNumGroups,
                          numGroupsSet |-> wantNumGroups]>>]

\* lines 682-687: UNION ALL keeps the Append, UNION removes the duplicates
generate_union_path_unique(op, proot, wantNumGroups, l, r, app, apath) ==
    generate_union_path_return(op, proot, wantNumGroups, l, r, app,
        IF union_needs_unique(op)
        THEN make_union_unique(op, apath, app.tlist, r.root)
        ELSE [err |-> NoError, asserts_ok |-> TRUE, path |-> apath, calls |-> <<>>],
        [r.root EXCEPT !.tuple_fraction = proot.tuple_fraction])

\* lines 674-680: the Append over all the children
generate_union_path_append(op, proot, wantNumGroups, l, r, app) ==
    generate_union_path_unique(op, proot, wantNumGroups, l, r, app,
        [create_append_path(l.pathlist \o r.pathlist)
             EXCEPT !.pathtarget = create_pathtarget(app.tlist)])

\* lines 662-672: the column list of the Append
generate_union_path_tlist(op, proot, refnames_tlist, wantNumGroups, l, r) ==
    IF l.err # NoError THEN Failed(l.err, l.root)
    ELSE IF r.err # NoError THEN Failed(r.err, r.root)
    ELSE generate_union_path_append(op, proot, wantNumGroups, l, r,
             generate_append_tlist(op.colTypes, op.colCollations, FALSE,
                                   l.tlist_list \o r.tlist_list, refnames_tlist))

\* lines 653-660, the second argument of list_concat
generate_union_path_right(op, proot, refnames_tlist, wantNumGroups, l) ==
    generate_union_path_tlist(op, proot, refnames_tlist, wantNumGroups, l,
        recurse_union_children(op.rarg, l.root, op, refnames_tlist))

generate_union_path(op, proot, refnames_tlist, wantNumGroups) ==
    generate_union_path_right(op, proot, refnames_tlist, wantNumGroups,
        recurse_union_children(op.larg,
                               IF ~op.all
                               THEN [proot EXCEPT !.tuple_fraction = ZeroFraction]
                               ELSE proot,
                               op, refnames_tlist))

\* line 759 reads both estimates unless the operator is EXCEPT; lines 809-818
\* read the left one, and for INTERSECT the right one too
nonunion_uninit_read(op, l, r, punt) ==
    \/ l.uninit_read \/ r.uninit_read
    \/ op.op # "EXCEPT" /\ (~l.numGroupsSet \/ ~r.numGroupsSet)
    \/ ~punt /\ (~l.numGroupsSet \/ (op.op # "EXCEPT" /\ ~r.numGroupsSet))

\* lines 863-866: *pNumGroups is written here and nowhere else
generate_nonunion_path_return(op, proot, wantNumGroups, l, r, d, order, app, gl, est, punt, use_hash, root1, path) ==
    [err |-> NoError,
     asserts_ok |-> /\ l.asserts_ok /\ r.asserts_ok /\ app.asserts_ok /\ gl.asserts_ok,
     uninit_read |-> nonunion_uninit_read(op, l, r, punt),
     path |-> path,
     tlist |-> app.tlist,
     numGroupsSet |-> ~punt /\ wantNumGroups,
     numGroups |-> IF ~punt /\ wantNumGroups THEN est.dNumGroups ELSE 0,
     root |-> root1,
     calls |-> l.calls \o r.calls
               \o <<TlistCall("generate_append_tlist", Len(op.colTypes), TRUE,
                              app.tlist),
                    GrouplistCall(op, app.tlist, gl),
                    [fn |-> "generate_nonunion_path", op |-> op, path |-> path,
                     tlist |-> app.tlist, root_in |-> proot, root_out |-> root1,
                     wantNumGroups |-> wantNumGroups,
                     numGroupsSet |-> ~punt /\ wantNumGroups,
                     lpath |-> l.path, rpath |-> r.path,
                     lset |-> l.numGroupsSet, rset |-> r.numGroupsSet,
                     dLeftGroups |-> d.dLeftGroups, dRightGroups |-> d.dRightGroups,
                     firstFlag |-> order.firstFlag, punt |-> punt,
                     use_hash |-> use_hash,
                     dNumGroups |-> est.dNumGroups]>>]

\* lines 826-861: a Sort when not hashing, and the SetOp on top
generate_nonunion_path_setop(op, proot, wantNumGroups, l, r, d, order, app, apath, gl, est, ch, root1) ==
    IF ch.err # NoError THEN Failed(ch.err, root1)
    ELSE generate_nonunion_path_return(op, proot, wantNumGroups, l, r, d, order, app,
             gl, est, FALSE, ch.use_hash, root1,
             create_setop_path(
                 IF ~ch.use_hash THEN create_sort_path(apath, gl.grouplist) ELSE apath,
                 setop_cmd(op),
                 IF ch.use_hash THEN "SETOP_HASHED" ELSE "SETOP_SORTED",
                 gl.grouplist, Len(op.colTypes) + 1,
                 IF ch.use_hash THEN order.firstFlag ELSE -1,
                 est.dNumGroups, est.dNumOutputRows))

\* lines 794-824: punt if there is nothing to group on, else estimate and
\* choose
generate_nonunion_path_choose(op, proot, wantNumGroups, l, r, d, order, app, apath, gl, est, root1) ==
    IF gl.err # NoError THEN Failed(gl.err, root1)
    ELSE IF gl.grouplist = <<>>
    THEN generate_nonunion_path_return(op, proot, wantNumGroups, l, r, d, order, app,
             gl, est, TRUE, FALSE, root1, apath)
    ELSE generate_nonunion_path_setop(op, proot, wantNumGroups, l, r, d, order, app,
             apath, gl, est,
             choose_hashed_setop(root1, gl.grouplist, apath, est.dNumGroups,
                                 est.dNumOutputRows,
                                 IF op.op = "INTERSECT" THEN "INTERSECT" ELSE "EXCEPT"),
             root1)

\* tuple_fraction left at the value the children were planned with
generate_nonunion_path_append_norestore(op, proot, wantNumGroups, l, r, d, order, app) ==
    generate_nonunion_path_choose(op, proot, wantNumGroups, l, r, d, order, app,
        [create_append_path(order.pathlist)
             EXCEPT !.pathtarget = create_pathtarget(app.tlist)],
        generate_setop_grouplist(op, app.tlist),
        nonunion_estimates(op, l.path, r.path, d.dLeftGroups, d.dRightGroups),
        r.root)

\* line 751 and lines 786-796: tuple_fraction restored, the Append over the
\* two branches, and the grouping list
generate_nonunion_path_append(op, proot, wantNumGroups, l, r, d, order, app) ==
    generate_nonunion_path_choose(op, proot, wantNumGroups, l, r, d, order, app,
        [create_append_path(order.pathlist)
             EXCEPT !.pathtarget = create_pathtarget(app.tlist)],
        generate_setop_grouplist(op, app.tlist),
        nonunion_estimates(op, l.path, r.path, d.dLeftGroups, d.dRightGroups),
        [r.root EXCEPT !.tuple_fraction = proot.tuple_fraction])

\* lines 772-784: the column list of the Append, with the flag column
generate_nonunion_path_tlist(op, proot, refnames_tlist, wantNumGroups, l, r, d, order) ==
    generate_nonunion_path_append(op, proot, wantNumGroups, l, r, d, order,
        generate_append_tlist(op.colTypes, op.colCollations, TRUE, order.tlist_list,
                              refnames_tlist))

\* lines 753-770: the order of the branches
generate_nonunion_path_order(op, proot, refnames_tlist, wantNumGroups, l, r, d) ==
    generate_nonunion_path_tlist(op, proot, refnames_tlist, wantNumGroups, l, r, d,
        nonunion_order(op, l, r, d.dLeftGroups, d.dRightGroups))

\* dLeftGroups and dRightGroups are locals without an initializer: a child
\* that did not write *pNumGroups leaves what the stack held
generate_nonunion_path_groups(op, proot, refnames_tlist, wantNumGroups, l, r) ==
    IF l.err # NoError THEN Failed(l.err, l.root)
    ELSE IF r.err # NoError THEN Failed(r.err, r.root)
    ELSE generate_nonunion_path_order(op, proot, refnames_tlist, wantNumGroups, l, r,
             [dLeftGroups |-> IF l.numGroupsSet THEN l.numGroups
                              ELSE stack_garbage.dLeftGroups,
              dRightGroups |-> IF r.numGroupsSet THEN r.numGroups
                               ELSE stack_garbage.dRightGroups])

\* lines 743-748: the right input, flag 1
generate_nonunion_path_right(op, proot, refnames_tlist, wantNumGroups, l) ==
    generate_nonunion_path_groups(op, proot, refnames_tlist, wantNumGroups, l,
        recurse_set_operations(op.rarg, l.root, op.colTypes, op.colCollations,
                               FALSE, 1, refnames_tlist, TRUE))

generate_nonunion_path(op, proot, refnames_tlist, wantNumGroups) ==
    generate_nonunion_path_right(op, proot, refnames_tlist, wantNumGroups,
        recurse_set_operations(op.larg,
                               [proot EXCEPT !.tuple_fraction = ZeroFraction],
                               op.colTypes, op.colCollations, FALSE, 0,
                               refnames_tlist, TRUE))

\* lines 899-909: the two halves of a folded child, concatenated
recurse_union_children_concat(l, r) ==
    IF l.err # NoError THEN l
    ELSE IF r.err # NoError THEN r
    ELSE [err |-> NoError,
          asserts_ok |-> l.asserts_ok /\ r.asserts_ok,
          uninit_read |-> l.uninit_read \/ r.uninit_read,
          pathlist |-> l.pathlist \o r.pathlist,
          tlist_list |-> l.tlist_list \o r.tlist_list,
          root |-> r.root,
          calls |-> l.calls \o r.calls]

recurse_union_children_right(setOp, top_union, refnames_tlist, l) ==
    recurse_union_children_concat(l,
        recurse_union_children(setOp.rarg, l.root, top_union, refnames_tlist))

\* lines 913-933: a child that is not folded is one element of the list
recurse_union_children_single(c) ==
    IF c.err # NoError THEN FailedList(c.err, c.root)
    ELSE [err |-> NoError, asserts_ok |-> c.asserts_ok,
          uninit_read |-> c.uninit_read,
          pathlist |-> <<c.path>>, tlist_list |-> <<c.tlist>>,
          root |-> c.root, calls |-> c.calls]

recurse_union_children(setOp, proot, top_union, refnames_tlist) ==
    IF IsSetOperationStmt(setOp) /\ is_same_union(setOp, top_union)
    THEN recurse_union_children_right(setOp, top_union, refnames_tlist,
             recurse_union_children(setOp.larg, proot, top_union, refnames_tlist))
    ELSE recurse_union_children_single(
             recurse_set_operations(setOp, proot, top_union.colTypes,
                                    top_union.colCollations, FALSE, -1,
                                    refnames_tlist, FALSE))

\* strip_remote_subquery: drop a RemoteSubplan at the top, or below a
\* SubqueryScan
RECURSIVE strip_remote_subquery(_)
strip_remote_subquery(path) ==
    IF path.pathtype = "RemoteSubplan" THEN path.subpath
    ELSE IF path.pathtype = "SubqueryScan"
    THEN [path EXCEPT !.subpath = strip_remote_subquery(path.subpath)]
    ELSE path

\* lines 604-613: the RecursiveUnion path
generate_recursion_path_return(setOp, proot, l, r, app, gl, rootR, path) ==
    [err |-> NoError,
     asserts_ok |-> /\ proot.wt_param_id >= 0
                    /\ l.asserts_ok /\ r.asserts_ok
                    /\ app.asserts_ok /\ gl.asserts_ok,
     uninit_read |-> l.uninit_read \/ r.uninit_read,
     path |-> path, tlist |-> app.tlist,
     numGroupsSet |-> FALSE, numGroups |-> 0,
     root |-> rootR,
     calls |-> l.calls \o r.calls
               \o <<TlistCall("generate_append_tlist", Len(setOp.colTypes), FALSE,
                              app.tlist)>>
               \o (IF setOp.all THEN <<>>
                   ELSE <<GrouplistCall(setOp, app.tlist, gl)>>)
               \o <<[fn |-> "generate_recursion_path", op |-> setOp,
                     path |-> path, tlist |-> app.tlist, root_in |-> proot,
                     root_out |-> rootR, lpath |-> l.path, rpath |-> r.path]>>]

\* lines 549-573: the grouping list and the group estimate of a plain UNION
generate_recursion_path_groups(setOp, proot, l, r, app, gl, rootR) ==
    IF gl.err # NoError THEN Failed(gl.err, rootR)
    ELSE IF ~setOp.all /\ ~grouping_is_hashable(gl.grouplist)
    THEN Failed("could not implement recursive UNION", rootR)
    ELSE generate_recursion_path_return(setOp, proot, l, r, app, gl, rootR,
             create_recursiveunion_path(
                 strip_remote_subquery(l.path), strip_remote_subquery(r.path),
                 create_pathtarget(app.tlist), gl.grouplist, proot.wt_param_id,
                 IF setOp.all THEN 0 ELSE l.path.rows + r.path.rows * 10))

\* lines 541-547: the column list of the union
generate_recursion_path_tlist(setOp, proot, l, r, app) ==
    generate_recursion_path_groups(setOp, proot, l, r, app,
        IF setOp.all
        THEN [err |-> NoError, asserts_ok |-> TRUE, grouplist |-> <<>>]
        ELSE generate_setop_grouplist(setOp, app.tlist),
        [r.root EXCEPT !.non_recursive_path = NoPath])

generate_recursion_path_append(setOp, proot, refnames_tlist, l, r) ==
    IF l.err # NoError THEN Failed(l.err, l.root)
    ELSE IF r.err # NoError THEN Failed(r.err, r.root)
    ELSE generate_recursion_path_tlist(setOp, proot, l, r,
             generate_append_tlist(setOp.colTypes, setOp.colCollations, FALSE,
                                   <<l.tlist, r.tlist>>, refnames_tlist))

\* lines 526-536: the right path will want to look at the left one
generate_recursion_path_right(setOp, proot, refnames_tlist, l) ==
    generate_recursion_path_append(setOp, proot, refnames_tlist, l,
        recurse_set_operations(setOp.rarg,
                               [l.root EXCEPT !.non_recursive_path = l.path],
                               setOp.colTypes, setOp.colCollations, FALSE, -1,
                               refnames_tlist, FALSE))

generate_recursion_path(setOp, proot, refnames_tlist) ==
    IF setOp.op # "UNION"
    THEN Failed("only UNION queries can be recursive", proot)
    ELSE generate_recursion_path_right(setOp, proot, refnames_tlist,
             recurse_set_operations(setOp.larg, proot, setOp.colTypes,
                                    setOp.colCollations, FALSE, -1, refnames_tlist,
                                    FALSE))

\* lines 179-185: the leftmost leaf query supplies the column names
RECURSIVE LeftmostLeaf(_)
LeftmostLeaf(node) ==
    IF IsSetOperationStmt(node) THEN LeftmostLeaf(node.larg) ELSE node

plan_set_operations(proot) ==
    LET topop == parse
        leftmostQuery == rtable[LeftmostLeaf(topop.larg).rtindex]
    IN  IF proot.hasRecursion
        THEN generate_recursion_path(topop, proot, leftmostQuery.targetList)
        ELSE recurse_set_operations(topop, proot, topop.colTypes,
                                    topop.colCollations, TRUE, -1,
                                    leftmostQuery.targetList, FALSE)

(***************************************************************************)
(* The trees parse analysis hands to the planner.  The leaves are numbered *)
(* left to right, as the parser numbers the range table.  A node's column  *)
(* types are the common types of its two inputs (select_common_type), and  *)
(* every node but UNION ALL carries one grouping clause per column.        *)
(***************************************************************************)
NumericTypmod == ((10 * 65536) + 2) + 4     \* numeric(10,2): ((precision << 16) | scale) + VARHDRSZ

LeafKinds == {"a", "b", "c"}

KindType(kind) == IF kind = "b" THEN NUMERICOID ELSE INT4OID

KindExpr(kind, i) ==
    CASE kind = "a" -> makeVar(1, i, INT4OID, -1, InvalidOid, 0)
      [] kind = "b" -> makeVar(1, i, NUMERICOID, NumericTypmod, InvalidOid, 0)
      [] kind = "c" -> makeConst(INT4OID, -1, InvalidOid, i)

\* the leaf's column list; kind "b" sorts on a column it does not return
KindTlist(kind, ncols) ==
    LET body == [i \in 1..ncols |->
                   makeTargetEntry(KindExpr(kind, i), i, "c", FALSE)]
    IN  IF kind = "b"
        THEN Append(body, makeTargetEntry(makeVar(1, ncols + 1, INT4OID, -1,
                                                  InvalidOid, 0),
                                          ncols + 1, "sortkey", TRUE))
        ELSE body

LeafQuery(kind, ncols) ==
    [kind |-> kind,
     rows |-> IF kind = "b" THEN 3000 ELSE 1000,
     ndistinct |-> IF kind = "b" THEN 200 ELSE 100,
     grouped |-> kind = "c",
     distributed |-> kind = "b",
     targetList |-> KindTlist(kind, ncols),
     processed_tlist |-> KindTlist(kind, ncols)]

LeafPatterns ==
    { <<"a", "a", "a", "a">>, <<"a", "b", "a", "c">>, <<"b", "a", "c", "b">> }

MakeRTable(pattern, ncols) ==
    [i \in 1..MaxLeaves |->
        LeafQuery(pattern[((i - 1) % Len(pattern)) + 1], ncols)]

select_common_type(t1, t2) ==
    IF t1 = NUMERICOID \/ t2 = NUMERICOID THEN NUMERICOID ELSE INT4OID

makeSortGroupClauseForSetOp(rescoltype) ==
    [tleSortGroupRef |-> 0, eqop |-> "=", sortop |-> "<", hashable |-> TRUE]

OutTypes(node, rt, ncols) ==
    IF IsSetOperationStmt(node) THEN node.colTypes
    ELSE [i \in 1..ncols |-> KindType(rt[node.rtindex].kind)]

MakeSetOp(op, all, larg, rarg, rt, ncols) ==
    LET colTypes == [i \in 1..ncols |->
                       select_common_type(OutTypes(larg, rt, ncols)[i],
                                          OutTypes(rarg, rt, ncols)[i])]
    IN  [tag |-> "SetOperationStmt", op |-> op, all |-> all,
         larg |-> larg, rarg |-> rarg,
         colTypes |-> colTypes,
         colCollations |-> [i \in 1..ncols |-> InvalidOid],
         groupClauses |-> IF op = "UNION" /\ all THEN <<>>
                          ELSE [i \in 1..ncols |->
                                  makeSortGroupClauseForSetOp(colTypes[i])]]

SetOps == {"UNION", "INTERSECT", "EXCEPT"}

RECURSIVE TreesWithLeaves(_, _, _, _)
TreesWithLeaves(n, first, rt, ncols) ==
    IF n = 1 THEN {[tag |-> "RangeTblRef", rtindex |-> first]}
    ELSE UNION { { MakeSetOp(op, all, l, r, rt, ncols) :
                     op \in SetOps, all \in BOOLEAN,
                     l \in TreesWithLeaves(k, first, rt, ncols),
                     r \in TreesWithLeaves(n - k, first + k, rt, ncols) } :
                 k \in 1..(n - 1) }

SetOpTrees(rt, ncols) ==
    UNION { TreesWithLeaves(n, 1, rt, ncols) : n \in 2..MaxLeaves }

(***************************************************************************)
(* Specification Spec: plan_set_operations on every tree of the bounds.    *)
(***************************************************************************)
TupleFractions ==
    { ZeroFraction, [num |-> 1, den |-> 2], [num |-> 1, den |-> 1],
      [num |-> 10, den |-> 1] }

CostPath(startup, total) == [startup_cost |-> startup, total_cost |-> total]

HashedCheaper == [hashed_p |-> CostPath(10, 20), sorted_p |-> CostPath(15, 30)]

NoCall == [groupClauses |-> <<>>, input_path |-> NoPath, dNumGroups |-> 0,
           dNumOutputRows |-> 0, construct |-> ""]

NoResult == [err |-> NoError]

\* Without columns every leaf kind has the same (empty) column list, so one
\* pattern holding all kinds stands for them; and only a node without columns
\* leaves *pNumGroups unwritten, so only there the stack contents matter.
Init ==
    /\ \E ncols \in 0..MaxCols :
          /\ \E pattern \in IF ncols = 0 THEN {<<"a", "b", "a", "c">>}
                            ELSE LeafPatterns :
                rtable = MakeRTable(pattern, ncols)
          /\ parse \in SetOpTrees(rtable, ncols)
          /\ stack_garbage \in
                 IF ncols = 0
                 THEN {[dLeftGroups |-> 7, dRightGroups |-> 5000],
                       [dLeftGroups |-> 5000, dRightGroups |-> 7]}
                 ELSE {[dLeftGroups |-> 7, dRightGroups |-> 7]}
    /\ enable_hashagg \in BOOLEAN
    /\ work_mem = 64
    /\ cost_model = HashedCheaper
    /\ \E tf \in {ZeroFraction, [num |-> 10, den |-> 1]} :
          root = [tuple_fraction |-> tf, non_recursive_path |-> NoPath,
                  hasRecursion |-> FALSE, wt_param_id |-> -1,
                  processed_tlist |-> <<>>]
    /\ call = NoCall
    /\ pc = "start"
    /\ result = NoResult
    /\ catalog = <<>>
    /\ locks = <<>>

PlanSetOperations ==
    /\ pc = "start"
    /\ LET res == plan_set_operations(root)
       IN  /\ result' = res
           /\ root' = IF res.err = NoError
                      THEN [res.root EXCEPT !.processed_tlist = res.tlist]
                      ELSE res.root
    /\ pc' = "done"
    /\ UNCHANGED <<parse, rtable, enable_hashagg, work_mem, cost_model,
                   stack_garbage, call, catalog, locks>>

Next == PlanSetOperations

Spec == Init /\ [][Next]_vars

(***************************************************************************)
(* Specification SpecChooser: choose_hashed_setop called directly, on      *)
(* every combination of grouping clauses, estimates, settings and costs.   *)
(***************************************************************************)
MaxGroupCols == 2     \* grouping clauses handed to the chooser

\* a type has an equality operator through a btree or a hash operator class,
\* so a clause supports sorting, hashing or both
GroupClauseKinds ==
    { [tleSortGroupRef |-> 1, eqop |-> "=", sortop |-> "<", hashable |-> TRUE],
      [tleSortGroupRef |-> 1, eqop |-> "=", sortop |-> "<", hashable |-> FALSE],
      [tleSortGroupRef |-> 1, eqop |-> "=", sortop |-> InvalidOid, hashable |-> TRUE] }

GroupClauseLists ==
    UNION { [1..n -> GroupClauseKinds] : n \in 1..MaxGroupCols }

ChooserCostModels ==
    [hashed_p : {CostPath(10, 20), CostPath(20, 20)},
     sorted_p : {CostPath(0, 30), CostPath(10, 20), CostPath(15, 30), CostPath(0, 10)}]

ChooserInit ==
    /\ parse = [tag |-> "RangeTblRef", rtindex |-> 1]
    /\ rtable = <<>>
    /\ stack_garbage = [dLeftGroups |-> 7, dRightGroups |-> 7]
    /\ enable_hashagg \in BOOLEAN
    /\ work_mem = 64
    /\ cost_model \in ChooserCostModels
    /\ \E tf \in TupleFractions :
          root = [tuple_fraction |-> tf, non_recursive_path |-> NoPath,
                  hasRecursion |-> FALSE, wt_param_id |-> -1,
                  processed_tlist |-> <<>>]
    /\ \E gc \in GroupClauseLists, groups \in {100, 2048, 2049},
          outrows \in {0, 5, 20}, construct \in SetOps :
          call = [groupClauses |-> gc,
                  input_path |-> [pathtype |-> "Append", rows |-> 6000,
                                  pathtarget |-> [exprs |-> <<>>, width |-> 4]],
                  dNumGroups |-> groups, dNumOutputRows |-> outrows,
                  construct |-> construct]
    /\ pc = "start"
    /\ result = NoResult
    /\ catalog = <<>>
    /\ locks = <<>>

ChooseHashedSetop ==
    /\ pc = "start"
    /\ result' = choose_hashed_setop(root, call.groupClauses, call.input_path,
                                     call.dNumGroups, call.dNumOutputRows,
                                     call.construct)
    /\ pc' = "done"
    /\ UNCHANGED <<parse, rtable, enable_hashagg, work_mem, cost_model, root,
                   stack_garbage, call, catalog, locks>>

ChooserNext == ChooseHashedSetop

SpecChooser == ChooserInit /\ [][ChooserNext]_vars

(***************************************************************************)
(* Properties of the set-operation planner (specification Spec).           *)
(***************************************************************************)
Planned == pc = "done" /\ result.err = NoError

CallsOf(fn) ==
    IF Planned THEN {i \in 1..Len(result.calls) : result.calls[i].fn = fn} ELSE {}

RECURSIVE LeafSeq(_)
LeafSeq(node) ==
    IF IsSetOperationStmt(node) THEN LeafSeq(node.larg) \o LeafSeq(node.rarg)
    ELSE <<node.rtindex>>

RECURSIVE Depth(_)
Depth(node) ==
    IF IsSetOperationStmt(node)
    THEN 1 + (IF Depth(node.larg) > Depth(node.rarg) THEN Depth(node.larg)
              ELSE Depth(node.rarg))
    ELSE 0

RECURSIVE OnlyUnionAll(_, _)
OnlyUnionAll(node, colTypes) ==
    IF IsSetOperationStmt(node)
    THEN /\ node.op = "UNION" /\ node.all /\ node.colTypes = colTypes
         /\ OnlyUnionAll(node.larg, colTypes)
         /\ OnlyUnionAll(node.rarg, colTypes)
    ELSE TRUE

IsLeafScan(path, rtindex) ==
    path.pathtype = "SubqueryScan" /\ path.rtindex = rtindex

\* the planner raises no error on the trees parse analysis produces, and no
\* Assert() fails
PlanningSucceeds == pc = "done" => result.err = NoError /\ result.asserts_ok

\* C1: a tree of UNION ALL nodes with equal column types becomes one Append
\* whose children are the scans of the leaf subqueries, one per leaf, in
\* left-to-right order; so no Append is a child of another Append.
UnionAllFlattened ==
    \A i \in CallsOf("generate_union_path") :
        LET e == result.calls[i]
            leaves == LeafSeq(e.op)
        IN  OnlyUnionAll(e.op, e.op.colTypes) =>
               /\ e.path.pathtype = "Append"
               /\ Len(e.path.subpaths) = Len(leaves)
               /\ \A k \in 1..Len(leaves) : IsLeafScan(e.path.subpaths[k], leaves[k])

UnionAllFlattenedWitness ==
    \E i \in CallsOf("generate_union_path") :
        LET e == result.calls[i]
        IN  /\ OnlyUnionAll(e.op, e.op.colTypes)
            /\ Depth(e.op) >= 3
            /\ Len(e.path.subpaths) = 4

StripProjection(path) ==
    IF path.pathtype = "Projection" THEN path.subpath ELSE path

RECURSIVE AppendOf(_)
AppendOf(path) ==
    IF path.pathtype = "Append" THEN path ELSE AppendOf(path.subpath)

RECURSIVE PathLeaves(_)
RECURSIVE PathLeavesOfList(_)
PathLeaves(path) ==
    IF path.pathtype = "SubqueryScan" THEN <<path.rtindex>>
    ELSE IF path.pathtype = "Append" THEN PathLeavesOfList(path.subpaths)
    ELSE PathLeaves(path.subpath)

PathLeavesOfList(paths) ==
    IF paths = <<>> THEN <<>>
    ELSE PathLeaves(Head(paths)) \o PathLeavesOfList(Tail(paths))

\* a duplicate-elimination stage directly above an Append: a hashed Agg, or
\* a Unique over a Sort
HasDedupStage(path) ==
    \/ /\ path.pathtype = "Agg"
       /\ path.aggstrategy = "AGG_HASHED"
       /\ path.subpath.pathtype = "Append"
    \/ /\ path.pathtype = "Unique"
       /\ path.subpath.pathtype = "Sort"
       /\ path.subpath.subpath.pathtype = "Append"

\* the children a UNION node's Append is to have: a child set operation is
\* folded when it is a UNION with the top's column types and either the same
\* duplicate handling, or it is UNION ALL under a plain UNION
FoldsInto(node, top) ==
    /\ node.op = "UNION" /\ top.op = "UNION"
    /\ node.colTypes = top.colTypes
    /\ (node.all = top.all \/ (node.all /\ ~top.all))

RECURSIVE ExpectedUnits(_, _)
ExpectedUnits(node, top) ==
    IF IsSetOperationStmt(node) /\ FoldsInto(node, top)
    THEN ExpectedUnits(node.larg, top) \o ExpectedUnits(node.rarg, top)
    ELSE <<node>>

\* the same leaves, in whatever order a nested INTERSECT put its branches
SameLeaves(a, b) ==
    /\ Len(a) = Len(b)
    /\ {a[k] : k \in 1..Len(a)} = {b[k] : k \in 1..Len(b)}

\* a child of the Append is the plan of one unit: the scan of a leaf, or the
\* separately planned set operation, deduplicated when that is a plain UNION
PlansUnit(path, unit) ==
    IF IsSetOperationStmt(unit)
    THEN LET core == StripProjection(path)
         IN  /\ SameLeaves(PathLeaves(core), LeafSeq(unit))
             /\ (unit.op = "UNION" /\ ~unit.all) => HasDedupStage(core)
    ELSE IsLeafScan(path, unit.rtindex)

UnitsPlanned(e) ==
    LET app == AppendOf(e.path)
        units == ExpectedUnits(e.op.larg, e.op) \o ExpectedUnits(e.op.rarg, e.op)
    IN  /\ Len(app.subpaths) = Len(units)
        /\ \A k \in 1..Len(units) : PlansUnit(app.subpaths[k], units[k])
        /\ e.op.all => e.path.pathtype = "Append"

\* C2: under a UNION node a child set operation is folded into the parent's
\* Append exactly when it is a UNION with the same column types and the same
\* duplicate handling, or a UNION ALL under a plain UNION; a plain UNION
\* under a UNION ALL is planned separately, with its own duplicate
\* elimination stage, and the UNION ALL's output is the bare Append.
UnionFolding ==
    \A i \in CallsOf("generate_union_path") : UnitsPlanned(result.calls[i])

\* the same for statements whose SELECTs have at least one output column
UnionFoldingWithColumns ==
    \A i \in CallsOf("generate_union_path") :
        result.calls[i].op.colTypes # <<>> => UnitsPlanned(result.calls[i])

\* C3: the path of a plain UNION has a duplicate-elimination stage (hashed
\* Agg, or Unique over Sort) directly above the Append; the path of a
\* UNION ALL is the bare Append.
UnionDedupStage ==
    \A i \in CallsOf("generate_union_path") :
        LET e == result.calls[i]
        IN  IF e.op.all THEN e.path.pathtype = "Append" ELSE HasDedupStage(e.path)

\* the same for statements whose SELECTs have at least one output column
UnionDedupStageWithColumns ==
    \A i \in CallsOf("generate_union_path") :
        LET e == result.calls[i]
        IN  e.op.colTypes # <<>> =>
               IF e.op.all THEN e.path.pathtype = "Append" ELSE HasDedupStage(e.path)

\* the constant a branch's rows carry in the junk flag column
FlagOf(path) ==
    LET exprs == path.pathtarget.exprs
    IN  IF exprs # <<>> /\ exprs[Len(exprs)].tag = "Const"
        THEN exprs[Len(exprs)].constvalue
        ELSE -1

\* the first-input flag a SetOp node is handed for the branch under the
\* Append's first position
FirstFlagHandedOver(e) ==
    e.path.pathtype = "SetOp" =>
        e.path.firstFlag = (IF e.path.strategy = "SETOP_HASHED"
                            THEN FlagOf(AppendOf(e.path).subpaths[1])
                            ELSE -1)

\* C4: EXCEPT never reorders its inputs: the left input is the Append's
\* first child, the right one its second, the left rows carry flag 0, the
\* right rows flag 1, and the first-input flag is 0.
ExceptKeepsOrder ==
    \A i \in CallsOf("generate_nonunion_path") :
        LET e == result.calls[i]
        IN  e.op.op = "EXCEPT" =>
               /\ AppendOf(e.path).subpaths = <<e.lpath, e.rpath>>
               /\ FlagOf(e.lpath) = 0 /\ FlagOf(e.rpath) = 1
               /\ e.firstFlag = 0
               /\ e.path.pathtype = "SetOp" /\ e.path.strategy = "SETOP_HASHED"
                    => e.path.firstFlag = 0

ExceptKeepsOrderWitness ==
    \E i \in CallsOf("generate_nonunion_path") :
        LET e == result.calls[i]
        IN  /\ e.op.op = "EXCEPT"
            /\ e.dLeftGroups > e.dRightGroups
            /\ e.path.pathtype = "SetOp" /\ e.path.strategy = "SETOP_HASHED"
            /\ AppendOf(e.path).subpaths = <<e.lpath, e.rpath>>

DenseColumn(tle, k) ==
    /\ tle.resno = k /\ ~tle.resjunk /\ tle.ressortgroupref = k

FlagColumn(tle, k) ==
    /\ tle.resno = k /\ tle.resjunk /\ tle.ressortgroupref = 0

Chosen == pc = "done"

CanSort == \A i \in 1..Len(call.groupClauses) : call.groupClauses[i].sortop # InvalidOid

CanHash == \A i \in 1..Len(call.groupClauses) : call.groupClauses[i].hashable

\* (MAXALIGN(row width) + MAXALIGN(minimal tuple header)) * dNumGroups
HashTableBytes ==
    (MAXALIGN(call.input_path.pathtarget.width) + MAXALIGN(SizeofMinimalTupleHeader))
        * call.dNumGroups

ExceedsWorkMem == HashTableBytes > work_mem * 1024

\* the fraction the costs are compared under: an absolute row count is
\* divided by the estimated number of output rows
ComparedFraction ==
    LET tf == root.tuple_fraction
    IN  IF tf.num >= tf.den
        THEN [num |-> tf.num, den |-> tf.den * call.dNumOutputRows]
        ELSE tf

HashedStrictlyCheaper ==
    compare_fractional_path_costs(cost_model.hashed_p, cost_model.sorted_p,
                                  ComparedFraction) < 0

\* C6: when the grouping keys are neither hashable nor sortable the chooser
\* raises feature-not-supported with a message naming the construct, and
\* returns no decision.
NoStrategyRaises ==
    Chosen /\ ~CanSort /\ ~CanHash =>
        /\ ~result.returned
        /\ result.errcode = "ERRCODE_FEATURE_NOT_SUPPORTED"
        /\ result.err = "could not implement " \o call.construct
        /\ call.construct \in {"UNION", "INTERSECT", "EXCEPT"}

NoStrategyRaisesWitness ==
    /\ Chosen /\ ~CanSort /\ ~CanHash
    /\ ~result.returned
    /\ result.err = "could not implement INTERSECT"

\* C7: keys that support exactly one of hashing and sorting get that
\* strategy, whatever enable_hashagg, work_mem, the group estimate, the
\* costs and tuple_fraction are.
OnlyStrategyChosen ==
    /\ Chosen /\ CanHash /\ ~CanSort => result.returned /\ result.use_hash
    /\ Chosen /\ CanSort /\ ~CanHash => result.returned /\ ~result.use_hash

OnlyStrategyChosenWitness ==
    /\ Chosen /\ CanHash /\ ~CanSort
    /\ ~enable_hashagg /\ ExceedsWorkMem
    /\ result.returned /\ result.use_hash

\* C8: with both strategies possible, hashing is never chosen when the
\* estimated hash table exceeds work_mem, whatever the costs are.
HashingFitsWorkMem ==
    Chosen /\ CanHash /\ CanSort /\ result.returned /\ result.use_hash
        => ~ExceedsWorkMem

HashingFitsWorkMemWitness ==
    /\ Chosen /\ CanHash /\ CanSort /\ enable_hashagg
    /\ ExceedsWorkMem /\ HashTableBytes - work_mem * 1024 <= 32
    /\ HashedStrictlyCheaper
    /\ result.returned /\ ~result.use_hash

\* C9: with both strategies possible and a hash table that fits, hashing is
\* chosen exactly when enable_hashagg is on and the hashed cost is strictly
\* lower under the fractional comparison; a tie yields sorting.
CheaperStrategyChosen ==
    Chosen /\ CanHash /\ CanSort /\ ~ExceedsWorkMem =>
        /\ result.returned
        /\ result.use_hash <=> (enable_hashagg /\ HashedStrictlyCheaper)

CheaperStrategyChosenWitness ==
    /\ Chosen /\ CanHash /\ CanSort /\ ~ExceedsWorkMem /\ enable_hashagg
    /\ root.tuple_fraction.num >= root.tuple_fraction.den
    /\ ComparedFraction.num < ComparedFraction.den
    /\ compare_fractional_path_costs(cost_model.hashed_p, cost_model.sorted_p,
                                     ComparedFraction) = 0
    /\ compare_path_costs(cost_model.hashed_p, cost_model.sorted_p) # 0
    /\ result.returned /\ ~result.use_hash

(***************************************************************************)
(* Specification SpecTlist: generate_setop_tlist called on a column list,  *)
(* and then again on the list it returned, with the same declared types    *)
(* and collations.  A text column carries a collation; int4 and numeric    *)
(* columns carry none.                                                     *)
(***************************************************************************)
MaxTlistCols == 2     \* columns of the list handed to generate_setop_tlist

TEXTOID == "text"

\* an input column and an output column declaration it can be reconciled
\* with: the common type parse analysis selected, and a collation only for
\* a collatable type
TlistColumnCases ==
    { [expr |-> makeVar(1, 0, INT4OID, -1, InvalidOid, 0),
       colType |-> t, colColl |-> InvalidOid] : t \in {INT4OID, NUMERICOID} }
    \cup { [expr |-> makeVar(1, 0, NUMERICOID, NumericTypmod, InvalidOid, 0),
            colType |-> NUMERICOID, colColl |-> InvalidOid] }
    \cup { [expr |-> makeConst(INT4OID, -1, InvalidOid, 42),
            colType |-> t, colColl |-> InvalidOid] : t \in {INT4OID, NUMERICOID} }
    \cup { [expr |-> makeVar(1, 0, TEXTOID, -1, c1, 0),
            colType |-> TEXTOID, colColl |-> c2] : c1, c2 \in {"C", "POSIX"} }

TlistInputEntry(case, resno) ==
    makeTargetEntry(IF case.expr.tag = "Var"
                    THEN [case.expr EXCEPT !.varattno = resno]
                    ELSE case.expr,
                    resno, "c", FALSE)

TlistInit ==
    /\ parse = [tag |-> "RangeTblRef", rtindex |-> 1]
    /\ rtable = <<>>
    /\ stack_garbage = [dLeftGroups |-> 7, dRightGroups |-> 7]
    /\ enable_hashagg = TRUE
    /\ work_mem = 64
    /\ cost_model = HashedCheaper
    /\ root = [tuple_fraction |-> ZeroFraction, non_recursive_path |-> NoPath,
               hasRecursion |-> FALSE, wt_param_id |-> -1, processed_tlist |-> <<>>]
    /\ \E n \in 1..MaxTlistCols :
          \E cases \in [1..n -> TlistColumnCases], flag \in {-1, 0, 1},
             hack_constants \in BOOLEAN :
             call = [colTypes |-> [i \in 1..n |-> cases[i].colType],
                     colCollations |-> [i \in 1..n |-> cases[i].colColl],
                     flag |-> flag, varno |-> 1, hack_constants |-> hack_constants,
                     input_tlist |-> [i \in 1..n |-> TlistInputEntry(cases[i], i)],
                     refnames_tlist |-> [i \in 1..n |-> TlistInputEntry(cases[i], i)]]
    /\ pc = "start"
    /\ result = NoResult
    /\ catalog = <<>>
    /\ locks = <<>>

GenerateSetopTlist ==
    /\ pc = "start"
    /\ result' = [first |-> generate_setop_tlist(call.colTypes, call.colCollations,
                                                 call.flag, call.varno,
                                                 call.hack_constants,
                                                 call.input_tlist,
                                                 call.refnames_tlist)]
    /\ pc' = "built"
    /\ UNCHANGED <<parse, rtable, enable_hashagg, work_mem, cost_model, root,
                   stack_garbage, call, catalog, locks>>

\* the list built is handed to generate_setop_tlist once more
RegenerateSetopTlist ==
    /\ pc = "built"
    /\ result.first.err = NoError
    /\ result' = [first |-> result.first,
                  second |-> generate_setop_tlist(call.colTypes, call.colCollations,
                                                  call.flag, call.varno,
                                                  call.hack_constants,
                                                  result.first.tlist,
                                                  call.refnames_tlist)]
    /\ pc' = "rebuilt"
    /\ UNCHANGED <<parse, rtable, enable_hashagg, work_mem, cost_model, root,
                   stack_garbage, call, catalog, locks>>

TlistNext == GenerateSetopTlist \/ RegenerateSetopTlist

SpecTlist == TlistInit /\ [][TlistNext]_vars

(***************************************************************************)
(* Properties of generate_setop_tlist (specification SpecTlist).           *)
(***************************************************************************)
IsCoercion(expr) == expr.tag = "FuncExpr"

IsRelabel(expr) == expr.tag = "RelabelType"

\* the expression under a collation relabel, or the expression itself
UnderRelabel(expr) == IF IsRelabel(expr) THEN expr.arg ELSE expr

\* the expression the loop starts from: the input's constant, or a reference
\* to the input column
ReferencedInput(inputtle) ==
    IF call.hack_constants /\ inputtle.expr.tag = "Const"
    THEN inputtle.expr
    ELSE makeVar(call.varno, inputtle.resno, exprType(inputtle.expr),
                 exprTypmod(inputtle.expr), exprCollation(inputtle.expr), 0)

\* column i is wrapped in a coercion exactly when the type differs, and in a
\* RelabelType on top exactly when the collation then exposed differs
WrappedAsNeeded(input_tlist, tlist, i) ==
    LET inner == UnderRelabel(tlist[i].expr)
    IN  /\ IsCoercion(inner) <=> exprType(ReferencedInput(input_tlist[i])) # call.colTypes[i]
        /\ IsCoercion(inner) => inner.arg = ReferencedInput(input_tlist[i])
        /\ ~IsCoercion(inner) => inner = ReferencedInput(input_tlist[i])
        /\ IsRelabel(tlist[i].expr) <=> exprCollation(inner) # call.colCollations[i]
        /\ tlist[i].expr.tag \in {"Var", "Const", "FuncExpr", "RelabelType"}
        /\ exprType(tlist[i].expr) = call.colTypes[i]
        /\ exprCollation(tlist[i].expr) = call.colCollations[i]

\* two column lists a later stage cannot tell apart: the same positions,
\* names, junk flags, tags, types, typmods and collations
EquivalentTlists(a, b) ==
    /\ Len(a) = Len(b)
    /\ \A i \in 1..Len(a) :
          /\ a[i].resno = b[i].resno /\ a[i].resname = b[i].resname
          /\ a[i].resjunk = b[i].resjunk
          /\ a[i].ressortgroupref = b[i].ressortgroupref
          /\ exprType(a[i].expr) = exprType(b[i].expr)
          /\ exprTypmod(a[i].expr) = exprTypmod(b[i].expr)
          /\ exprCollation(a[i].expr) = exprCollation(b[i].expr)

\* C11: generate_setop_tlist wraps a column in a coercion exactly when its
\* type differs from the declared one and in a RelabelType (never a
\* CollateExpr) exactly when its collation differs; applied again to its own
\* output it adds no wrapper and returns an equivalent list.
SetopTlistIdempotent ==
    /\ pc \in {"built", "rebuilt"} /\ result.first.err = NoError =>
          \A i \in 1..Len(call.colTypes) :
              WrappedAsNeeded(call.input_tlist, result.first.tlist, i)
    /\ pc = "rebuilt" /\ result.second.err = NoError =>
          /\ \A i \in 1..Len(call.colTypes) :
                /\ WrappedAsNeeded(result.first.tlist, result.second.tlist, i)
                /\ ~IsCoercion(result.second.tlist[i].expr)
                /\ ~IsRelabel(result.second.tlist[i].expr)
          /\ EquivalentTlists(result.first.tlist, result.second.tlist)
    /\ pc = "rebuilt" => result.second.err = NoError

SetopTlistIdempotentWitness ==
    /\ pc = "rebuilt"
    /\ \E i \in 1..Len(call.colTypes) : IsCoercion(result.first.tlist[i].expr)
    /\ \E i \in 1..Len(call.colTypes) : IsRelabel(result.first.tlist[i].expr)
    /\ call.flag >= 0
    /\ result.second.tlist # result.first.tlist

(***************************************************************************)
(* Specification SpecAppendTlist: generate_append_tlist called on the      *)
(* column lists of the children of an Append, and then on the same         *)
(* children in another order.                                              *)
(***************************************************************************)
MaxAppendChildren == 3     \* children of the Append

OtherNumericTypmod == ((12 * 65536) + 4) + 4

\* the expressions a child can have in a column
AppendColumnExprs ==
    { makeVar(1, 0, INT4OID, -1, InvalidOid, 0),
      makeVar(1, 0, NUMERICOID, -1, InvalidOid, 0),
      makeVar(1, 0, NUMERICOID, NumericTypmod, InvalidOid, 0),
      makeVar(1, 0, NUMERICOID, OtherNumericTypmod, InvalidOid, 0) }

\* the column list of one child: its columns, and after them a junk column
\* when the child carries one
AppendChildTlist(exprs, n, junk) ==
    [r \in 1..(IF junk THEN n + 1 ELSE n) |->
        IF r <= n
        THEN makeTargetEntry([exprs[r] EXCEPT !.varattno = r], r, "c", FALSE)
        ELSE makeTargetEntry(makeVar(1, r, INT4OID, -1, InvalidOid, 0), r, "j", TRUE)]

Reordered(input_tlists, order) == [k \in 1..Len(input_tlists) |-> input_tlists[order[k]]]

Orders(n) == { f \in [1..n -> 1..n] : \A a, b \in 1..n : f[a] = f[b] => a = b }

AppendTlistInit ==
    /\ parse = [tag |-> "RangeTblRef", rtindex |-> 1]
    /\ rtable = <<>>
    /\ stack_garbage = [dLeftGroups |-> 7, dRightGroups |-> 7]
    /\ enable_hashagg = TRUE
    /\ work_mem = 64
    /\ cost_model = HashedCheaper
    /\ root = [tuple_fraction |-> ZeroFraction, non_recursive_path |-> NoPath,
               hasRecursion |-> FALSE, wt_param_id |-> -1, processed_tlist |-> <<>>]
    /\ \E n \in 1..MaxTlistCols, kids \in 1..MaxAppendChildren :
          \E exprs \in [1..kids -> [1..n -> AppendColumnExprs]],
             colTypes \in [1..n -> {INT4OID, NUMERICOID}],
             junk \in [1..kids -> BOOLEAN], flag \in BOOLEAN :
             /\ \A k \in 2..kids : junk[k] = junk[1]
             /\ call = [colTypes |-> colTypes,
                        colCollations |-> [i \in 1..n |-> InvalidOid],
                        flag |-> flag,
                        input_tlists |-> [k \in 1..kids |->
                                             AppendChildTlist(exprs[k], n, junk[k])],
                        refnames_tlist |-> AppendChildTlist(exprs[1], n, FALSE)]
    /\ pc = "start"
    /\ result = NoResult
    /\ catalog = <<>>
    /\ locks = <<>>

GenerateAppendTlist ==
    /\ pc = "start"
    /\ result' = [first |-> generate_append_tlist(call.colTypes, call.colCollations,
                                                  call.flag, call.input_tlists,
                                                  call.refnames_tlist)]
    /\ pc' = "built"
    /\ UNCHANGED <<parse, rtable, enable_hashagg, work_mem, cost_model, root,
                   stack_garbage, call, catalog, locks>>

\* the same children, appended in another order
GenerateAppendTlistReordered ==
    /\ pc = "built"
    /\ \E order \in Orders(Len(call.input_tlists)) :
          result' = [first |-> result.first,
                     order |-> order,
                     second |-> generate_append_tlist(call.colTypes,
                                    call.colCollations, call.flag,
                                    Reordered(call.input_tlists, order),
                                    call.refnames_tlist)]
    /\ pc' = "rebuilt"
    /\ UNCHANGED <<parse, rtable, enable_hashagg, work_mem, cost_model, root,
                   stack_garbage, call, catalog, locks>>

AppendTlistNext == GenerateAppendTlist \/ GenerateAppendTlistReordered

SpecAppendTlist == AppendTlistInit /\ [][AppendTlistNext]_vars

(***************************************************************************)
(* Properties of generate_append_tlist (specification SpecAppendTlist).    *)
(***************************************************************************)
\* the (type, typmod) pairs the children have in their i-th non-junk column
ChildColumnTypes(i) ==
    { <<exprType(NonJunk(call.input_tlists[k])[i].expr),
        exprTypmod(NonJunk(call.input_tlists[k])[i].expr)>> :
          k \in 1..Len(call.input_tlists) }

\* the typmod all children agree on under the declared type, or -1
AgreedTypmod(i) ==
    IF \E t \in {-1, NumericTypmod, OtherNumericTypmod} :
          ChildColumnTypes(i) = {<<call.colTypes[i], t>>}
    THEN (CHOOSE pair \in ChildColumnTypes(i) : TRUE)[2]
    ELSE -1

\* C12: the typmod of an output column of generate_append_tlist is t when
\* every child has the declared type with typmod t in that column and -1
\* otherwise, whichever child disagrees; the order of the children does not
\* change the result.
AppendTypmodAgreed ==
    /\ pc \in {"built", "rebuilt"} =>
          /\ result.first.asserts_ok
          /\ \A i \in 1..Len(call.colTypes) :
                /\ exprTypmod(result.first.tlist[i].expr) = AgreedTypmod(i)
                /\ exprType(result.first.tlist[i].expr) = call.colTypes[i]
    /\ pc = "rebuilt" => result.second = result.first

AppendTypmodAgreedWitness ==
    /\ pc = "rebuilt"
    /\ Len(call.input_tlists) = 3
    /\ result.order = <<3, 1, 2>>
    /\ Len(call.colTypes) = 2
    /\ AgreedTypmod(1) = NumericTypmod
    /\ AgreedTypmod(2) = -1
    /\ exprType(call.input_tlists[1][2].expr) = call.colTypes[2]
    /\ exprTypmod(call.input_tlists[1][2].expr) = NumericTypmod
    /\ exprType(call.input_tlists[2][2].expr) # call.colTypes[2]
    /\ exprTypmod(call.input_tlists[3][2].expr) = NumericTypmod


(***************************************************************************)
(* Inheritance and partition expansion: expand_inherited_tables and the    *)
(* functions it calls.  A relation is named by its OID; the catalog gives  *)
(* each relation its kind, its parent, whether it is a temporary table of  *)
(* another session, and its tuple descriptor.                              *)
(***************************************************************************)
RELKIND_RELATION == "r"

RELKIND_FOREIGN_TABLE == "f"

RELKIND_PARTITIONED_TABLE == "p"

NoLock == "NoLock"

AccessShareLock == "AccessShareLock"

RowShareLock == "RowShareLock"

RowExclusiveLock == "RowExclusiveLock"

LockModes == {AccessShareLock, RowShareLock, RowExclusiveLock}

LockRelationOid(lk, relid, lockmode) == [lk EXCEPT ![relid][lockmode] = @ + 1]

UnlockRelationOid(lk, relid, lockmode) ==
    [lk EXCEPT ![relid][lockmode] = IF @ > 0 THEN @ - 1 ELSE 0]

\* heap_close(rel, lockmode): with NoLock the lock stays until transaction end
heap_close(lk, relid, lockmode) ==
    IF lockmode = NoLock THEN lk ELSE UnlockRelationOid(lk, relid, lockmode)

\* the RowMarkType enumeration, in declaration order
RowMarkTypes ==
    <<"ROW_MARK_EXCLUSIVE", "ROW_MARK_NOKEYEXCLUSIVE", "ROW_MARK_SHARE",
      "ROW_MARK_KEYSHARE", "ROW_MARK_REFERENCE", "ROW_MARK_COPY">>

RowMarkOrdinal(markType) ==
    (CHOOSE i \in 1..Len(RowMarkTypes) : RowMarkTypes[i] = markType) - 1

RowMarkRequiresRowShareLock(markType) ==
    RowMarkOrdinal(markType) < RowMarkOrdinal("ROW_MARK_REFERENCE")

\* 1 << markType
RowMarkBit(markType) == 2 ^ RowMarkOrdinal(markType)

\* a | b on non-negative integers
RECURSIVE BitOr(_, _)
BitOr(a, b) ==
    IF a = 0 THEN b
    ELSE IF b = 0 THEN a
    ELSE (IF a % 2 = 1 \/ b % 2 = 1 THEN 1 ELSE 0) + 2 * BitOr(a \div 2, b \div 2)

select_rowmark_type(rte, strength) ==
    IF rte.rtekind # "RTE_RELATION" THEN "ROW_MARK_COPY"
    ELSE IF rte.relkind = RELKIND_FOREIGN_TABLE THEN "ROW_MARK_COPY"
    ELSE CASE strength = "LCS_NONE" -> "ROW_MARK_REFERENCE"
           [] strength = "LCS_FORKEYSHARE" -> "ROW_MARK_KEYSHARE"
           [] strength = "LCS_FORSHARE" -> "ROW_MARK_SHARE"
           [] strength = "LCS_FORNOKEYUPDATE" -> "ROW_MARK_NOKEYEXCLUSIVE"
           [] strength = "LCS_FORUPDATE" -> "ROW_MARK_EXCLUSIVE"

\* position in root->rowMarks of the mark of range-table entry rti, 0 if none
get_plan_rowmark(rowMarks, rti) ==
    IF \E i \in 1..Len(rowMarks) : rowMarks[i].rti = rti
    THEN CHOOSE i \in 1..Len(rowMarks) :
            /\ rowMarks[i].rti = rti
            /\ \A j \in 1..(i - 1) : rowMarks[j].rti # rti
    ELSE 0

\* the NULL a translated_vars slot holds for a dropped parent column
NullNode == [tag |-> "NULL"]

RECURSIVE SortedSeq(_)
SortedSeq(S) ==
    IF S = {} THEN <<>>
    ELSE <<CHOOSE m \in S : \A x \in S : m <= x>>
         \o SortedSeq(S \ {CHOOSE m \in S : \A x \in S : m <= x})

SeqRange(s) == { s[i] : i \in 1..Len(s) }

\* pg_inherits children of a relation, in OID order
find_inheritance_children(cat, parentrelId) ==
    SortedSeq({ r \in DOMAIN cat : cat[r].inhparent = parentrelId })

\* partdesc->oids: the partitions in the order of their bounds
RelationGetPartitionDesc(cat, relid) == cat[relid].partdesc

has_subclass(cat, relationId) == cat[relationId].relhassubclass

\* the parent, then every descendant, each once
RECURSIVE find_all_inheritors_walk(_, _, _)
find_all_inheritors_walk(cat, rels_list, i) ==
    IF i > Len(rels_list) THEN rels_list
    ELSE find_all_inheritors_walk(cat,
             rels_list \o SelectSeq(find_inheritance_children(cat, rels_list[i]),
                                    LAMBDA r : r \notin SeqRange(rels_list)),
             i + 1)

find_all_inheritors(cat, parentrelId) ==
    find_all_inheritors_walk(cat, <<parentrelId>>, 1)

\* find_inheritance_children locks every child it returns
RECURSIVE lock_inheritors(_, _, _, _)
lock_inheritors(lk, inhOIDs, lockmode, k) ==
    IF k > Len(inhOIDs) THEN lk
    ELSE lock_inheritors(LockRelationOid(lk, inhOIDs[k], lockmode), inhOIDs,
                         lockmode, k + 1)

RELATION_IS_OTHER_TEMP(cat, relid) == cat[relid].other_temp

has_partition_attrs(rel, attnums) == rel.partattrs \cap attnums # {}

(***************************************************************************)
(* make_inh_translation_list.  old_attno and new_attno count from 0 as in  *)
(* the code; a tuple descriptor is a sequence indexed from 1.              *)
(***************************************************************************)
\* attnum of the live attribute of that name, 0 when there is none
SearchSysCacheAttName(new_tupdesc, attname) ==
    IF \E i \in 1..Len(new_tupdesc) :
          ~new_tupdesc[i].attisdropped /\ new_tupdesc[i].attname = attname
    THEN CHOOSE i \in 1..Len(new_tupdesc) :
            ~new_tupdesc[i].attisdropped /\ new_tupdesc[i].attname = attname
    ELSE 0

RECURSIVE inh_translation_loop(_, _, _, _, _, _, _)

\* the Var appended without comparing type, typmod or collation
inh_translation_nocheck(old_tupdesc, new_tupdesc, samerel, newvarno, old_attno, new_attno, tvars, att) ==
    inh_translation_loop(old_tupdesc, new_tupdesc, samerel, newvarno,
                         old_attno + 1, new_attno + 1,
                         Append(tvars, makeVar(newvarno, new_attno + 1, att.atttypid,
                                              att.atttypmod, att.attcollation, 0)))

\* lines 1922-1936: the type and collation checks, then the Var
inh_translation_match(old_tupdesc, new_tupdesc, samerel, newvarno, old_attno, new_attno, tvars, att) ==
    IF \/ att.atttypid # new_tupdesc[new_attno + 1].atttypid
       \/ att.atttypmod # new_tupdesc[new_attno + 1].atttypmod
    THEN [err |-> "attribute does not match parent's type", vars |-> tvars]
    ELSE IF att.attcollation # new_tupdesc[new_attno + 1].attcollation
    THEN [err |-> "attribute does not match parent's collation", vars |-> tvars]
    ELSE inh_translation_loop(old_tupdesc, new_tupdesc, samerel, newvarno,
                              old_attno + 1, new_attno + 1,
                              Append(tvars, makeVar(newvarno, new_attno + 1,
                                                   att.atttypid, att.atttypmod,
                                                   att.attcollation, 0)))

\* lines 1910-1919: the lookup by name
inh_translation_by_name(old_tupdesc, new_tupdesc, samerel, newvarno, old_attno, tvars, att, attnum) ==
    IF attnum = 0
    THEN [err |-> "could not find inherited attribute", vars |-> tvars]
    ELSE inh_translation_match(old_tupdesc, new_tupdesc, samerel, newvarno,
                               old_attno, attnum - 1, tvars, att)

\* lines 1870-1920: one parent attribute
inh_translation_attr(old_tupdesc, new_tupdesc, samerel, newvarno, old_attno, new_attno, tvars, att) ==
    IF att.attisdropped
    THEN inh_translation_loop(old_tupdesc, new_tupdesc, samerel, newvarno,
                              old_attno + 1, new_attno, Append(tvars, NullNode))
    ELSE IF samerel
    THEN inh_translation_loop(old_tupdesc, new_tupdesc, samerel, newvarno,
                              old_attno + 1, new_attno,
                              Append(tvars, makeVar(newvarno, old_attno + 1,
                                                   att.atttypid, att.atttypmod,
                                                   att.attcollation, 0)))
    ELSE IF \/ new_attno >= Len(new_tupdesc)
            \/ new_tupdesc[new_attno + 1].attisdropped
            \/ att.attname # new_tupdesc[new_attno + 1].attname
    THEN inh_translation_by_name(old_tupdesc, new_tupdesc, samerel, newvarno,
                                 old_attno, tvars, att,
                                 SearchSysCacheAttName(new_tupdesc, att.attname))
    ELSE inh_translation_match(old_tupdesc, new_tupdesc, samerel, newvarno,
                               old_attno, new_attno, tvars, att)

inh_translation_loop(old_tupdesc, new_tupdesc, samerel, newvarno, old_attno, new_attno, tvars) ==
    IF old_attno >= Len(old_tupdesc)
    THEN [err |-> NoError, vars |-> tvars]
    ELSE inh_translation_attr(old_tupdesc, new_tupdesc, samerel, newvarno,
                              old_attno, new_attno, tvars,
                              old_tupdesc[old_attno + 1])

\* samerel: oldrelation == newrelation
make_inh_translation_list(old_tupdesc, new_tupdesc, samerel, newvarno) ==
    inh_translation_loop(old_tupdesc, new_tupdesc, samerel, newvarno, 0, 0, <<>>)

\* attribute numbers stand for the bits of the bitmapsets
translate_col_privs(parent_privs, translated_vars) ==
    { attno \in parent_privs : attno < 0 }
    \cup { translated_vars[attno].varattno :
              attno \in { a \in 1..Len(translated_vars) :
                            /\ translated_vars[a] # NullNode
                            /\ (0 \in parent_privs \/ a \in parent_privs) } }

(***************************************************************************)
(* expand_single_inheritance_child.  st is the state the expansion works   *)
(* on: parse->rtable, the list *appinfos points to, root->append_rel_list, *)
(* root->rowMarks, the lock table, the error raised, and the RT index      *)
(* returned in *childRTindex_p.  top_parentrc is a position in rowMarks,   *)
(* 0 for NULL.                                                             *)
(***************************************************************************)
\* the copy with inh cleared for every child
single_child_rte_noinh(cat, parentrte, parentOID, childOID) ==
    [parentrte EXCEPT
        !.relid = childOID,
        !.relkind = cat[childOID].relkind,
        !.inh = FALSE,
        !.requiredPerms = 0,
        !.securityQuals = <<>>]

\* lines 1755-1766: the copy of the parent's entry
single_child_rte(cat, parentrte, parentOID, childOID) ==
    [parentrte EXCEPT
        !.relid = childOID,
        !.relkind = cat[childOID].relkind,
        !.inh = (childOID # parentOID
                 /\ cat[childOID].relkind = RELKIND_PARTITIONED_TABLE),
        !.requiredPerms = 0,
        !.securityQuals = <<>>]

\* line 1778
single_child_needs_appinfo(childrte) ==
    childrte.relkind # RELKIND_PARTITIONED_TABLE \/ childrte.inh

\* lines 1799-1807
single_child_privs(parentrte, childrte, parentOID, childOID, translated_vars) ==
    IF childOID # parentOID
    THEN [childrte EXCEPT
            !.selectedCols = translate_col_privs(parentrte.selectedCols, translated_vars),
            !.insertedCols = translate_col_privs(parentrte.insertedCols, translated_vars),
            !.updatedCols = translate_col_privs(parentrte.updatedCols, translated_vars)]
    ELSE childrte

\* lines 1815-1825, 1832
single_child_rowmark(top_rc, childrte, childRTindex) ==
    [rti |-> childRTindex,
     prti |-> top_rc.rti,
     rowmarkId |-> top_rc.rowmarkId,
     markType |-> select_rowmark_type(childrte, top_rc.strength),
     allMarkTypes |-> RowMarkBit(select_rowmark_type(childrte, top_rc.strength)),
     strength |-> top_rc.strength,
     waitPolicy |-> top_rc.waitPolicy,
     isParent |-> (childrte.relkind = RELKIND_PARTITIONED_TABLE)]

\* the child's mark appended, the top parent's summary left as it was
single_child_add_rowmark_nosum(st, top_parentrc, childrc) ==
    [st EXCEPT !.rowMarks = Append(@, childrc)]

\* lines 1834-1837
single_child_add_rowmark(st, top_parentrc, childrc) ==
    [st EXCEPT !.rowMarks =
        Append([@ EXCEPT ![top_parentrc].allMarkTypes =
                              BitOr(@, childrc.allMarkTypes)],
               childrc)]

\* lines 1810-1838
single_child_mark(st, top_parentrc, childrte, childRTindex) ==
    IF top_parentrc # 0
    THEN single_child_add_rowmark(st, top_parentrc,
             single_child_rowmark(st.rowMarks[top_parentrc], childrte, childRTindex))
    ELSE st

\* lines 1767-1808 once the translation list is known
single_child_append(st, parentrte, parentRTindex, parentOID, top_parentrc, childOID, childrte, childRTindex, cat, tv) ==
    IF ~single_child_needs_appinfo(childrte)
    THEN single_child_mark([st EXCEPT !.rtable = Append(@, childrte),
                                      !.childRTindex = childRTindex],
                           top_parentrc, childrte, childRTindex)
    ELSE IF tv.err # NoError
    THEN [st EXCEPT !.rtable = Append(@, childrte),
                    !.childRTindex = childRTindex,
                    !.err = tv.err]
    ELSE single_child_mark(
             [st EXCEPT
                 !.rtable = Append(@, single_child_privs(parentrte, childrte,
                                                         parentOID, childOID, tv.vars)),
                 !.childRTindex = childRTindex,
                 !.appinfos = Append(@, [parent_relid |-> parentRTindex,
                                         child_relid |-> childRTindex,
                                         parent_reltype |-> cat[parentOID].reltype,
                                         child_reltype |-> cat[childOID].reltype,
                                         translated_vars |-> tv.vars,
                                         parent_reloid |-> parentOID])],
             top_parentrc, childrte, childRTindex)

expand_single_inheritance_child(cat, st, parentRTindex, parentOID, top_parentrc, childOID) ==
    single_child_append(st, st.rtable[parentRTindex], parentRTindex, parentOID,
                        top_parentrc, childOID,
                        single_child_rte(cat, st.rtable[parentRTindex], parentOID, childOID),
                        Len(st.rtable) + 1, cat,
                        make_inh_translation_list(cat[parentOID].attrs,
                                                  cat[childOID].attrs,
                                                  parentOID = childOID,
                                                  Len(st.rtable) + 1))

(***************************************************************************)
(* expand_partitioned_rtentry                                              *)
(***************************************************************************)
RECURSIVE expand_partitioned_rtentry(_, _, _, _, _, _)
RECURSIVE expand_partitions_loop(_, _, _, _, _, _, _, _)

\* a partitioned partition left unexpanded
expand_partition_nested_skip(cat, st, top_parentrc, lockmode, childOID) == st

\* lines 1685-1691: a partitioned partition is expanded in its turn
expand_partition_nested(cat, st, top_parentrc, lockmode, childOID) ==
    IF st.err # NoError THEN st
    ELSE IF cat[childOID].relkind = RELKIND_PARTITIONED_TABLE
    THEN expand_partitioned_rtentry(cat, st, st.childRTindex, childOID,
                                    top_parentrc, lockmode)
    ELSE st

\* lines 1666-1693: one partition
expand_partition(cat, st, parentRTindex, parentOID, top_parentrc, lockmode, i, has_child, childOID) ==
    IF RELATION_IS_OTHER_TEMP(cat, childOID)
    THEN expand_partitions_loop(cat,
             [st EXCEPT !.locks = heap_close(@, childOID, lockmode)],
             parentRTindex, parentOID, top_parentrc, lockmode, i + 1, has_child)
    ELSE expand_partitions_loop(cat,
             expand_partition_nested(cat,
                 expand_single_inheritance_child(cat, st, parentRTindex, parentOID,
                                                 top_parentrc, childOID),
                 top_parentrc, lockmode, childOID),
             parentRTindex, parentOID, top_parentrc, lockmode, i + 1, TRUE)

\* lines 1664-1702: the loop over the partition descriptor
expand_partitions_loop(cat, st, parentRTindex, parentOID, top_parentrc, lockmode, i, has_child) ==
    IF st.err # NoError THEN st
    ELSE IF i > Len(RelationGetPartitionDesc(cat, parentOID))
    THEN IF has_child THEN st
         ELSE [st EXCEPT !.rtable[parentRTindex].inh = FALSE]
    ELSE expand_partition(cat, st, parentRTindex, parentOID, top_parentrc,
                          lockmode, i, has_child,
                          RelationGetPartitionDesc(cat, parentOID)[i])

expand_partitioned_rtentry(cat, st, parentRTindex, parentOID, top_parentrc, lockmode) ==
    expand_partitions_loop(cat,
        expand_single_inheritance_child(cat,
            [st EXCEPT !.asserts_ok = @ /\ st.rtable[parentRTindex].inh,
                       !.partColsUpdated =
                           @ \/ has_partition_attrs(cat[parentOID],
                                    st.rtable[parentRTindex].updatedCols)],
            parentRTindex, parentOID, top_parentrc, parentOID),
        parentRTindex, parentOID, top_parentrc, lockmode, 1, FALSE)

(***************************************************************************)
(* expand_inherited_rtentry                                                *)
(***************************************************************************)
RECURSIVE expand_children_loop(_, _, _, _, _, _, _, _)

\* lines 1573-1601: one member of the inheritance set
expand_child(cat, st, rti, parentOID, oldrc, lockmode, inhOIDs, k, childOID) ==
    IF childOID # parentOID /\ RELATION_IS_OTHER_TEMP(cat, childOID)
    THEN expand_children_loop(cat,
             [st EXCEPT !.locks = heap_close(@, childOID, lockmode)],
             rti, parentOID, oldrc, lockmode, inhOIDs, k + 1)
    ELSE expand_children_loop(cat,
             expand_single_inheritance_child(cat, st, rti, parentOID, oldrc, childOID),
             rti, parentOID, oldrc, lockmode, inhOIDs, k + 1)

\* the AppendRelInfos kept however few members are left
expand_children_loop_concat(cat, st, rti, parentOID, oldrc, lockmode, inhOIDs, k) ==
    IF st.err # NoError THEN st
    ELSE IF k > Len(inhOIDs)
    THEN [st EXCEPT !.append_rel_list = @ \o st.appinfos]
    ELSE expand_child(cat, st, rti, parentOID, oldrc, lockmode, inhOIDs, k,
                      inhOIDs[k])

\* lines 1571-1616: the loop over the inheritors, and what follows it
expand_children_loop(cat, st, rti, parentOID, oldrc, lockmode, inhOIDs, k) ==
    IF st.err # NoError THEN st
    ELSE IF k > Len(inhOIDs)
    THEN IF Len(st.appinfos) < 2
         THEN [st EXCEPT !.rtable[rti].inh = FALSE]
         ELSE [st EXCEPT !.append_rel_list = @ \o st.appinfos]
    ELSE expand_child(cat, st, rti, parentOID, oldrc, lockmode, inhOIDs, k,
                      inhOIDs[k])

\* lines 1548-1558: appinfos is &root->append_rel_list
expand_partitioned_done(st) == [st EXCEPT !.append_rel_list = st.appinfos]

\* lines 1526-1620, with the descendants enumerated and locked
expand_inherited_locked(cat, st, rti, parentOID, oldrc, lockmode, inhOIDs) ==
    IF Len(inhOIDs) < 2
    THEN [st EXCEPT !.rtable[rti].inh = FALSE]
    ELSE IF cat[parentOID].relkind = RELKIND_PARTITIONED_TABLE
    THEN expand_partitioned_done(
             expand_partitioned_rtentry(cat,
                 [st EXCEPT !.rowMarks = IF oldrc # 0
                                         THEN [@ EXCEPT ![oldrc].isParent = TRUE]
                                         ELSE @,
                            !.asserts_ok = @ /\ st.rtable[rti].relkind
                                                   = RELKIND_PARTITIONED_TABLE,
                            !.appinfos = st.append_rel_list],
                 rti, parentOID, oldrc, lockmode))
    ELSE expand_children_loop(cat,
             [st EXCEPT !.rowMarks = IF oldrc # 0
                                     THEN [@ EXCEPT ![oldrc].isParent = TRUE]
                                     ELSE @,
                        !.appinfos = <<>>],
             rti, parentOID, oldrc, lockmode, inhOIDs, 1)

\* lines 1510-1516
expand_lockmode(st, rti, resultRelation, oldrc) ==
    IF rti = resultRelation THEN RowExclusiveLock
    ELSE IF oldrc # 0 /\ RowMarkRequiresRowShareLock(st.rowMarks[oldrc].markType)
    THEN RowShareLock
    ELSE AccessShareLock

\* line 1519: find_all_inheritors locks each descendant it returns
expand_inherited_enumerate(cat, st, rti, parentOID, oldrc, lockmode, inhOIDs) ==
    expand_inherited_locked(cat,
        [st EXCEPT !.locks = lock_inheritors(@, inhOIDs, lockmode, 2),
                   !.enumerated = @ \o [k \in 1..(Len(inhOIDs) - 1) |->
                                           [relid |-> inhOIDs[k + 1],
                                            lockmode |-> lockmode]]],
        rti, parentOID, oldrc, lockmode, inhOIDs)

expand_inherited_rtentry(cat, resultRelation, st, rti) ==
    IF ~st.rtable[rti].inh THEN st
    ELSE IF st.rtable[rti].rtekind # "RTE_RELATION"
    THEN [st EXCEPT !.asserts_ok = @ /\ st.rtable[rti].rtekind = "RTE_SUBQUERY"]
    ELSE IF ~has_subclass(cat, st.rtable[rti].relid)
    THEN [st EXCEPT !.rtable[rti].inh = FALSE]
    ELSE expand_inherited_enumerate(cat, st, rti, st.rtable[rti].relid,
             get_plan_rowmark(st.rowMarks, rti),
             expand_lockmode(st, rti, resultRelation,
                             get_plan_rowmark(st.rowMarks, rti)),
             find_all_inheritors(cat, st.rtable[rti].relid))

(***************************************************************************)
(* Specification SpecExpand: expand_inherited_tables over the range table  *)
(* of a query on relation 1 of a catalog of MaxRels relations.             *)
(***************************************************************************)
MaxRels == 4     \* relations in the catalog

RelOids == 1..MaxRels

Attribute(attname, atttypid, atttypmod, attcollation, attisdropped) ==
    [attname |-> attname, atttypid |-> atttypid, atttypmod |-> atttypmod,
     attcollation |-> attcollation, attisdropped |-> attisdropped]

LiveA == Attribute("a", INT4OID, -1, InvalidOid, FALSE)

LiveB == Attribute("b", TEXTOID, -1, "C", FALSE)

DroppedAttribute == Attribute("dropped", INT4OID, -1, InvalidOid, TRUE)

\* the tuple descriptors a relation can have: the root's, with a dropped
\* column in the middle; the plain one; one built in another order; one
\* whose column has another type; one that lacks a column
TupleDescs ==
    [root |-> <<LiveA, DroppedAttribute, LiveB>>,
     plain |-> <<LiveA, LiveB>>,
     reordered |-> <<LiveB, DroppedAttribute, LiveA>>,
     retyped |-> <<Attribute("a", NUMERICOID, NumericTypmod, InvalidOid, FALSE), LiveB>>,
     lacking |-> <<LiveA>>]

\* pg_inherits: relation 1 is the root, every other relation has one parent
\* created before it
InhParents ==
    { f \in [RelOids -> 0..(MaxRels - 1)] :
        f[1] = 0 /\ \A r \in 2..MaxRels : f[r] \in 1..(r - 1) }

\* relkinds DDL allows: only a partitioned table has a partitioned child, a
\* foreign table and a partition have no children of their own kind below
RelKinds(inhparent) ==
    { k \in [RelOids -> {RELKIND_RELATION, RELKIND_FOREIGN_TABLE,
                         RELKIND_PARTITIONED_TABLE}] :
        /\ k[1] # RELKIND_FOREIGN_TABLE
        /\ \A r \in 2..MaxRels :
              /\ k[inhparent[r]] # RELKIND_FOREIGN_TABLE
              /\ k[r] = RELKIND_PARTITIONED_TABLE
                    => k[inhparent[r]] = RELKIND_PARTITIONED_TABLE
              /\ k[inhparent[r]] = RELKIND_RELATION
                    => \/ inhparent[inhparent[r]] = 0
                       \/ k[inhparent[inhparent[r]]] = RELKIND_RELATION }

\* pg_class.reltype: the OID of the relation's row type
RowTypeOid(relid) == ToString(100 + relid)

Reverse(s) == [i \in 1..Len(s) |-> s[Len(s) + 1 - i]]

MakeCatalog(inhparent, relkind, other_temp, stale, odd, shape, bounds_descend) ==
    [r \in RelOids |->
        [relkind |-> relkind[r],
         inhparent |-> inhparent[r],
         other_temp |-> other_temp[r],
         relhassubclass |-> (stale \/ \E c \in RelOids : inhparent[c] = r),
         reltype |-> RowTypeOid(r),
         partattrs |-> IF relkind[r] = RELKIND_PARTITIONED_TABLE THEN {1} ELSE {},
         partdesc |-> IF relkind[r] # RELKIND_PARTITIONED_TABLE THEN <<>>
                      ELSE IF bounds_descend
                      THEN Reverse(SortedSeq({ c \in RelOids : inhparent[c] = r }))
                      ELSE SortedSeq({ c \in RelOids : inhparent[c] = r }),
         attrs |-> IF r = 1 THEN TupleDescs.root
                   ELSE IF r = odd THEN TupleDescs[shape]
                   ELSE TupleDescs.plain]]

RelationRTE(cat, relid, inh, updatedCols) ==
    [rtekind |-> "RTE_RELATION", relid |-> relid, relkind |-> cat[relid].relkind,
     inh |-> inh, requiredPerms |-> 2, securityQuals |-> <<"rls">>,
     selectedCols |-> {1, 3}, insertedCols |-> {}, updatedCols |-> updatedCols]

SubqueryRTE(inh) ==
    [rtekind |-> "RTE_SUBQUERY", relid |-> 0, relkind |-> "", inh |-> inh,
     requiredPerms |-> 0, securityQuals |-> <<>>,
     selectedCols |-> {}, insertedCols |-> {}, updatedCols |-> {}]

\* what follows the root's entry in the range table: nothing, a subquery, a
\* UNION ALL subquery already flattened into an append relation over two
\* subqueries, or a second table
RangeTableTails(cat) ==
    { <<>>, <<SubqueryRTE(FALSE)>>,
      <<SubqueryRTE(TRUE), SubqueryRTE(FALSE), SubqueryRTE(FALSE)>> }
    \cup { <<RelationRTE(cat, 2, inh, {})>> : inh \in BOOLEAN }

\* the AppendRelInfos the flattening of a UNION ALL subquery left
FlattenedAppendRels(rt) ==
    IF Len(rt) = 4
    THEN [k \in 1..2 |->
             [parent_relid |-> 2, child_relid |-> 2 + k,
              parent_reltype |-> InvalidOid, child_reltype |-> InvalidOid,
              translated_vars |-> <<makeVar(2 + k, 1, INT4OID, -1, InvalidOid, 0)>>,
              parent_reloid |-> InvalidOid]]
    ELSE <<>>

\* the row mark preprocess_rowmarks made for range-table entry rti
TopRowMark(rte, rti, strength) ==
    [rti |-> rti, prti |-> rti, rowmarkId |-> rti,
     markType |-> select_rowmark_type(rte, strength),
     allMarkTypes |-> RowMarkBit(select_rowmark_type(rte, strength)),
     strength |-> strength, waitPolicy |-> "LockWaitBlock", isParent |-> FALSE]

\* the locks parse analysis took on the relations of the range table
RECURSIVE ParserLocks(_, _, _, _, _)
ParserLocks(lk, rt, rowMarks, resultRelation, rti) ==
    IF rti > Len(rt) THEN lk
    ELSE ParserLocks(IF rt[rti].rtekind = "RTE_RELATION"
                     THEN LockRelationOid(lk, rt[rti].relid,
                              expand_lockmode([rowMarks |-> rowMarks], rti,
                                              resultRelation,
                                              get_plan_rowmark(rowMarks, rti)))
                     ELSE lk,
                     rt, rowMarks, resultRelation, rti + 1)

NoLocks == [r \in RelOids |-> [m \in LockModes |-> 0]]

ExpandInit ==
    /\ enable_hashagg = TRUE
    /\ work_mem = 64
    /\ cost_model = HashedCheaper
    /\ stack_garbage = [dLeftGroups |-> 7, dRightGroups |-> 7]
    /\ \E inhparent \in InhParents :
          \E relkind \in RelKinds(inhparent), other_temp \in [RelOids -> BOOLEAN],
             stale \in BOOLEAN, odd \in {0, MaxRels},
             shape \in {"reordered", "retyped", "lacking"},
             bounds_descend \in BOOLEAN :
             /\ ~other_temp[1]
             /\ bounds_descend =>
                   \E r \in RelOids, c1, c2 \in RelOids :
                      /\ relkind[r] = RELKIND_PARTITIONED_TABLE /\ c1 # c2
                      /\ inhparent[c1] = r /\ inhparent[c2] = r
             /\ \A r \in RelOids : other_temp[r] => relkind[r] # RELKIND_FOREIGN_TABLE
             /\ odd = 0 => shape = "reordered"
             /\ catalog = MakeCatalog(inhparent, relkind, other_temp, stale, odd,
                                      shape, bounds_descend)
    /\ \E resultRelation \in {0, 1}, tail \in RangeTableTails(catalog),
          strength \in {"none", "LCS_NONE", "LCS_FORSHARE", "LCS_FORUPDATE"} :
          /\ resultRelation = 1 => strength = "none"
          /\ Len(tail) = 1 /\ tail[1].rtekind = "RTE_RELATION" => ~catalog[2].other_temp
          /\ parse = [resultRelation |-> resultRelation]
          /\ rtable = <<RelationRTE(catalog, 1, TRUE,
                                    IF resultRelation = 1 THEN {1} ELSE {})>> \o tail
          /\ root = [append_rel_list |-> FlattenedAppendRels(rtable),
                     rowMarks |-> IF strength = "none" THEN <<>>
                                  ELSE <<TopRowMark(rtable[1], 1, strength)>>,
                     partColsUpdated |-> FALSE]
          /\ locks = ParserLocks(NoLocks, rtable, root.rowMarks, resultRelation, 1)
    /\ call = [rti |-> 0, nrtes |-> 0]
    /\ pc = "start"
    /\ result = [err |-> NoError, asserts_ok |-> TRUE, enumerated |-> <<>>]

\* lines 1426-1438: the number of entries is taken before the loop starts
ExpandInheritedTables ==
    /\ pc = "start"
    /\ call' = [rti |-> 1, nrtes |-> Len(rtable)]
    /\ pc' = "expanding"
    /\ UNCHANGED <<parse, rtable, enable_hashagg, work_mem, cost_model, root,
                   stack_garbage, result, catalog, locks>>

ExpandState ==
    [rtable |-> rtable, appinfos |-> <<>>, append_rel_list |-> root.append_rel_list,
     rowMarks |-> root.rowMarks, partColsUpdated |-> root.partColsUpdated,
     locks |-> locks, err |-> NoError, asserts_ok |-> result.asserts_ok,
     enumerated |-> result.enumerated, childRTindex |-> 0]

\* what one call of expand_inherited_rtentry leaves behind
ExpandApply(st) ==
    /\ rtable' = st.rtable
    /\ root' = [append_rel_list |-> st.append_rel_list, rowMarks |-> st.rowMarks,
                partColsUpdated |-> st.partColsUpdated]
    /\ locks' = st.locks
    /\ result' = [err |-> st.err, asserts_ok |-> st.asserts_ok,
                  enumerated |-> st.enumerated]
    /\ pc' = IF st.err # NoError THEN "failed"
             ELSE IF call.rti = call.nrtes THEN "done" ELSE "expanding"
    /\ call' = [call EXCEPT !.rti = @ + 1]

\* lines 1439-1445: one iteration of the loop over the original entries
ExpandInheritedRtentry ==
    /\ pc = "expanding"
    /\ call.rti <= call.nrtes
    /\ ExpandApply(expand_inherited_rtentry(catalog, parse.resultRelation,
                                            ExpandState, call.rti))
    /\ UNCHANGED <<parse, enable_hashagg, work_mem, cost_model, stack_garbage,
                   catalog>>

ExpandNext == ExpandInheritedTables \/ ExpandInheritedRtentry

SpecExpand == ExpandInit /\ [][ExpandNext]_vars


(***************************************************************************)
(* Properties of the expansion (specification SpecExpand).                 *)
(***************************************************************************)
AppendRels == root.append_rel_list

IsAppendParent(i) == \E k \in 1..Len(AppendRels) : AppendRels[k].parent_relid = i

\* the original entries the loop has been through without an error
ExpandedEntries ==
    IF pc \in {"expanding", "done"} THEN { i \in 1..call.nrtes : i < call.rti }
    ELSE IF pc = "failed" THEN { i \in 1..call.nrtes : i < call.rti - 1 }
    ELSE {}

\* C13: once expand_inherited_tables has returned, an entry of the range
\* table, original or added, has inh set exactly when it is the parent of
\* at least one AppendRelInfo of append_rel_list.
InhIffAppendParent ==
    pc = "done" => \A i \in 1..Len(rtable) : rtable[i].inh <=> IsAppendParent(i)

InhIffAppendParentWitness ==
    /\ pc = "done"
    /\ catalog[1].relkind = RELKIND_PARTITIONED_TABLE
    /\ rtable[1].inh
    /\ \E i \in (call.nrtes + 1)..Len(rtable) : rtable[i].inh /\ IsAppendParent(i)
    /\ \E i \in (call.nrtes + 1)..Len(rtable) :
          /\ rtable[i].relkind = RELKIND_PARTITIONED_TABLE
          /\ rtable[i].relid # 1
          /\ ~rtable[i].inh
          /\ \E k \in 1..Len(AppendRels) : AppendRels[k].child_relid = i
    /\ \E r \in RelOids : catalog[r].other_temp

\* how many times the enumeration locked the relation in that mode
LocksEnumerated(relid, lockmode) ==
    Cardinality({ k \in 1..Len(result.enumerated) :
                    result.enumerated[k] = [relid |-> relid, lockmode |-> lockmode] })

\* C14: every lock the enumeration of the descendants acquired is still held
\* when the expansion finishes or fails, also on a descendant skipped as
\* another session's temporary table.
EnumerationLocksKept ==
    pc \in {"done", "failed"} =>
        \A relid \in RelOids, lockmode \in LockModes :
            locks[relid][lockmode] >=
                ParserLocks(NoLocks, SubSeq(rtable, 1, call.nrtes), root.rowMarks,
                            parse.resultRelation, 1)[relid][lockmode]
                + LocksEnumerated(relid, lockmode)

\* the relation has no descendant, or only other sessions' temporary tables
OnlyOtherTempChildren(relid) ==
    \A k \in 2..Len(find_all_inheritors(catalog, relid)) :
        catalog[find_all_inheritors(catalog, relid)[k]].other_temp

IsOtherTempEntry(i) ==
    rtable[i].rtekind = "RTE_RELATION" /\ catalog[rtable[i].relid].other_temp

\* C15: when fewer than two members of the inheritance set remain, the
\* expansion of that entry raises no error, clears its inh flag and adds no
\* AppendRelInfo for it; a skipped temporary table gets no range-table
\* entry, no translation map and no row mark.
ChildlessDegrades ==
    /\ \A rti \in 1..call.nrtes :
          /\ pc \in {"expanding", "done", "failed"} /\ rti < call.rti
          /\ rtable[rti].rtekind = "RTE_RELATION"
          /\ OnlyOtherTempChildren(rtable[rti].relid)
          => /\ ~(pc = "failed" /\ call.rti = rti + 1)
             /\ ~rtable[rti].inh
             /\ ~IsAppendParent(rti)
    /\ pc # "start" =>
          /\ \A i \in 1..Len(rtable) : ~IsOtherTempEntry(i)
          /\ \A k \in 1..Len(AppendRels) :
                ~IsOtherTempEntry(AppendRels[k].child_relid)
          /\ \A k \in 1..Len(root.rowMarks) : ~IsOtherTempEntry(root.rowMarks[k].rti)

ChildlessDegradesWitness ==
    /\ pc = "done"
    /\ catalog[1].relkind = RELKIND_RELATION
    /\ Len(find_all_inheritors(catalog, 1)) = MaxRels
    /\ OnlyOtherTempChildren(1)
    /\ Len(rtable) = call.nrtes + 1
    /\ Len(root.rowMarks) = 2
    /\ call.nrtes = 2 /\ rtable[2].rtekind = "RTE_SUBQUERY" /\ ~rtable[1].inh

\* the original entry an entry descends from, 0 if its chain is broken
RECURSIVE TopParent(_)
TopParent(i) ==
    IF i <= call.nrtes THEN i
    ELSE IF \E k \in 1..Len(AppendRels) : AppendRels[k].child_relid = i
    THEN TopParent((CHOOSE a \in SeqRange(AppendRels) : a.child_relid = i).parent_relid)
    ELSE 0

AppendRelsUnder(rti) ==
    SelectSeq(AppendRels, LAMBDA a : TopParent(a.parent_relid) = rti)

\* the partitions below a relation that are not skipped, depth first in the
\* order of the partition descriptors, each with its immediate parent
RECURSIVE PartitionsDepthFirst(_, _)
PartitionsDepthFirst(rel, i) ==
    IF i > Len(catalog[rel].partdesc) THEN <<>>
    ELSE (IF catalog[catalog[rel].partdesc[i]].other_temp THEN <<>>
          ELSE <<[child |-> catalog[rel].partdesc[i], parent |-> rel]>>
               \o PartitionsDepthFirst(catalog[rel].partdesc[i], 1))
         \o PartitionsDepthFirst(rel, i + 1)

\* the members of a classic inheritance set that are not skipped
InheritanceMembers(rel) ==
    SelectSeq(find_all_inheritors(catalog, rel),
              LAMBDA c : c = rel \/ ~catalog[c].other_temp)

\* child and parent relation of each AppendRelInfo
AppendRelPairs(infos) ==
    [k \in 1..Len(infos) |-> [child |-> rtable[infos[k].child_relid].relid,
                              parent |-> rtable[infos[k].parent_relid].relid]]

\* the parent of an AppendRelInfo is the root's entry or an entry that is
\* itself the child of an AppendRelInfo
ParentIsExpandedEntry(a, rti) ==
    \/ a.parent_relid = rti
    \/ \E k \in 1..Len(AppendRels) : AppendRels[k].child_relid = a.parent_relid

\* C16: below a partitioned root every partition not skipped, at every
\* level, is the child of exactly one AppendRelInfo whose parent is the
\* entry of its immediate parent, in depth-first partition-descriptor
\* order; classic inheritance is flat, every AppendRelInfo having the root's
\* index as parent.
AppendRelHierarchy ==
    \A rti \in ExpandedEntries :
        rtable[rti].rtekind = "RTE_RELATION" =>
            IF ~rtable[rti].inh
            THEN /\ AppendRelsUnder(rti) = <<>>
                 /\ rti = 1 /\ catalog[1].relhassubclass =>
                       IF catalog[1].relkind = RELKIND_PARTITIONED_TABLE
                       THEN PartitionsDepthFirst(1, 1) = <<>>
                       ELSE Len(InheritanceMembers(1)) < 2
            ELSE IF rtable[rti].relkind = RELKIND_PARTITIONED_TABLE
            THEN /\ AppendRelPairs(AppendRelsUnder(rti))
                       = PartitionsDepthFirst(rtable[rti].relid, 1)
                 /\ \A k \in 1..Len(AppendRelsUnder(rti)) :
                       ParentIsExpandedEntry(AppendRelsUnder(rti)[k], rti)
            ELSE /\ \A k \in 1..Len(AppendRelsUnder(rti)) :
                       AppendRelsUnder(rti)[k].parent_relid = rti
                 /\ [k \in 1..Len(AppendRelsUnder(rti)) |->
                        rtable[AppendRelsUnder(rti)[k].child_relid].relid]
                       = InheritanceMembers(rtable[rti].relid)

AppendRelHierarchyWitness ==
    /\ pc = "done"
    /\ catalog[1].relkind = RELKIND_PARTITIONED_TABLE
    /\ Len(AppendRelsUnder(1)) = 3
    /\ catalog[1].partdesc = <<3, 2>>
    /\ \E k \in 1..Len(AppendRels) :
          /\ AppendRels[k].parent_relid > call.nrtes
          /\ rtable[AppendRels[k].child_relid].relid = MaxRels
    /\ rtable[AppendRels[1].child_relid].relid = 3
    /\ call.nrtes = 2 /\ rtable[2].inh /\ Len(AppendRelsUnder(2)) = 1

AppendRelHierarchyFlatWitness ==
    /\ pc = "done"
    /\ catalog[1].relkind = RELKIND_RELATION
    /\ catalog[MaxRels].inhparent = 3 /\ catalog[3].inhparent = 2
    /\ Len(AppendRelsUnder(1)) = MaxRels

\* the entries one call of expand_inherited_rtentry appended
AddedEntries == SubSeq(rtable', Len(rtable) + 1, Len(rtable'))

\* the relations an expansion of the entry has to give a child entry:
\* the members of a classic inheritance set, the parent among them, or the
\* partitions of a partitioned table at every level
PhysicalChildren(rte) ==
    IF rte.relkind = RELKIND_PARTITIONED_TABLE
    THEN { PartitionsDepthFirst(rte.relid, 1)[k].child :
              k \in 1..Len(PartitionsDepthFirst(rte.relid, 1)) }
    ELSE SeqRange(InheritanceMembers(rte.relid))

OneEntryPerChildStep ==
    pc = "expanding" /\ pc' \in {"expanding", "done"} /\ Len(rtable') > Len(rtable) =>
        /\ \A i, j \in 1..Len(AddedEntries) :
              i # j => AddedEntries[i].relid # AddedEntries[j].relid
        /\ { AddedEntries[i].relid : i \in 1..Len(AddedEntries) }
              = PhysicalChildren(rtable[call.rti])
        /\ rtable[call.rti].relkind # RELKIND_PARTITIONED_TABLE =>
              \E i \in 1..Len(AddedEntries) :
                 AddedEntries[i].relid = rtable[call.rti].relid /\ ~AddedEntries[i].inh

\* C17: an expansion appends exactly one range-table entry per physical
\* child; classic inheritance includes one entry for the parent as a member
\* of its own set, with inh false; for a partitioned table, root or
\* intermediate, no second entry of the partitioned table itself is
\* appended.
OneEntryPerChild == [][OneEntryPerChildStep]_vars

\* bit o of a bitmask
BitSet(mask, o) == (mask \div (2 ^ o)) % 2 = 1

ChildRowMarks == SubSeq(root.rowMarks, 2, Len(root.rowMarks))

\* C18: the top parent's allMarkTypes is its value before the expansion
\* OR-ed with (1 << markType) of every child row mark at any depth; every
\* child row mark carries the top parent's RT index as prti, its rowmarkId,
\* strength and wait policy, and isParent exactly when the child is a
\* partitioned table.
RowMarksAccumulate ==
    pc \in {"expanding", "done"} /\ Len(root.rowMarks) >= 1 =>
        /\ \A o \in 0..(Len(RowMarkTypes) + 1) :
              BitSet(root.rowMarks[1].allMarkTypes, o) <=>
                 /\ o < Len(RowMarkTypes)
                 /\ \/ RowMarkTypes[o + 1] = root.rowMarks[1].markType
                    \/ \E k \in 1..Len(ChildRowMarks) :
                          RowMarkTypes[o + 1] = ChildRowMarks[k].markType
        /\ \A k \in 1..Len(ChildRowMarks) :
              /\ ChildRowMarks[k].prti = root.rowMarks[1].rti
              /\ ChildRowMarks[k].rowmarkId = root.rowMarks[1].rowmarkId
              /\ ChildRowMarks[k].strength = root.rowMarks[1].strength
              /\ ChildRowMarks[k].waitPolicy = root.rowMarks[1].waitPolicy
              /\ ChildRowMarks[k].isParent <=>
                    catalog[rtable[ChildRowMarks[k].rti].relid].relkind
                       = RELKIND_PARTITIONED_TABLE
              /\ ChildRowMarks[k].rti > call.nrtes
        /\ \A j, k \in 1..Len(ChildRowMarks) :
              j # k => ChildRowMarks[j].rti # ChildRowMarks[k].rti

RowMarksAccumulateWitness ==
    /\ pc = "done"
    /\ Len(ChildRowMarks) >= 4
    /\ root.rowMarks[1].strength = "LCS_FORSHARE"
    /\ \E k \in 1..Len(ChildRowMarks) :
          /\ ChildRowMarks[k].markType = "ROW_MARK_COPY"
          /\ AppendRels[CHOOSE a \in 1..Len(AppendRels) :
                           AppendRels[a].child_relid = ChildRowMarks[k].rti].parent_relid
                > call.nrtes
    /\ \E k \in 1..Len(ChildRowMarks) :
          ChildRowMarks[k].isParent /\ ChildRowMarks[k].rti > call.nrtes + 1


(***************************************************************************)
(* adjust_appendrel_attrs_mutator on a Var.  The result carries the error  *)
(* raised, the node returned, whether the Assert held, and nth: the        *)
(* position of translated_vars that list_nth read, 0 when it read none.    *)
(***************************************************************************)
OidIsValid(oid) == oid # InvalidOid

\* lines 2072-2079: the first AppendRelInfo whose parent the Var refers to,
\* 0 for NULL
mutator_find_appinfo(var, appinfos) ==
    IF \E cnt \in 1..Len(appinfos) : var.varno = appinfos[cnt].parent_relid
    THEN CHOOSE cnt \in 1..Len(appinfos) :
            /\ var.varno = appinfos[cnt].parent_relid
            /\ \A c \in 1..(cnt - 1) : var.varno # appinfos[c].parent_relid
    ELSE 0

\* a dropped column's slot handed back as if it were a translation
mutator_var_slot_unchecked(var, appinfo, newnode) ==
    [err |-> NoError, node |-> newnode, asserts_ok |-> TRUE, nth |-> var.varattno]

\* lines 2092-2097: the copy of the slot, or the error for a NULL slot
mutator_var_slot(var, appinfo, newnode) ==
    IF newnode = NullNode
    THEN [err |-> "attribute does not exist", node |-> NullNode,
          asserts_ok |-> TRUE, nth |-> var.varattno]
    ELSE [err |-> NoError, node |-> newnode, asserts_ok |-> TRUE,
          nth |-> var.varattno]

\* lines 2085-2098: a user column
mutator_var_attr(var, appinfo) ==
    IF var.varattno > Len(appinfo.translated_vars)
    THEN [err |-> "attribute does not exist", node |-> NullNode,
          asserts_ok |-> TRUE, nth |-> 0]
    ELSE mutator_var_slot(var, appinfo, appinfo.translated_vars[var.varattno])

\* the conversion wrapper put around a Var that keeps the parent's row type
mutator_var_wholerow_keeptype(var, appinfo, colnames) ==
    IF OidIsValid(appinfo.child_reltype)
    THEN [err |-> NoError,
          node |-> IF appinfo.parent_reltype # appinfo.child_reltype
                   THEN [tag |-> "ConvertRowtypeExpr", arg |-> var,
                         resulttype |-> appinfo.parent_reltype]
                   ELSE var,
          asserts_ok |-> (var.vartype = appinfo.parent_reltype), nth |-> 0]
    ELSE [err |-> NoError,
          node |-> [tag |-> "RowExpr", args |-> appinfo.translated_vars,
                    row_typeid |-> var.vartype, colnames |-> colnames],
          asserts_ok |-> TRUE, nth |-> 0]

\* lines 2099-2152: a whole-row Var
mutator_var_wholerow(var, appinfo, colnames) ==
    IF OidIsValid(appinfo.child_reltype)
    THEN IF appinfo.parent_reltype # appinfo.child_reltype
         THEN [err |-> NoError,
               node |-> [tag |-> "ConvertRowtypeExpr",
                         arg |-> [var EXCEPT !.vartype = appinfo.child_reltype],
                         resulttype |-> appinfo.parent_reltype],
               asserts_ok |-> (var.vartype = appinfo.parent_reltype), nth |-> 0]
         ELSE [err |-> NoError, node |-> var,
               asserts_ok |-> (var.vartype = appinfo.parent_reltype), nth |-> 0]
    ELSE [err |-> NoError,
          node |-> [tag |-> "RowExpr", args |-> appinfo.translated_vars,
                    row_typeid |-> var.vartype, colnames |-> colnames],
          asserts_ok |-> TRUE, nth |-> 0]

\* lines 2081-2155, var being the copy with varno and varnoold replaced
mutator_var_mapped(var, appinfo, colnames) ==
    IF var.varattno > 0 THEN mutator_var_attr(var, appinfo)
    ELSE IF var.varattno = 0 THEN mutator_var_wholerow(var, appinfo, colnames)
    ELSE [err |-> NoError, node |-> var, asserts_ok |-> TRUE, nth |-> 0]

\* lines 2067-2156
mutator_var(var, appinfos, cnt, colnames) ==
    IF var.varlevelsup = 0 /\ cnt # 0
    THEN mutator_var_mapped([var EXCEPT !.varno = appinfos[cnt].child_relid,
                                        !.varnoold = appinfos[cnt].child_relid],
                            appinfos[cnt], colnames)
    ELSE [err |-> NoError, node |-> var, asserts_ok |-> TRUE, nth |-> 0]

\* line 2297: expression_tree_mutator on a ConvertRowtypeExpr copies the node
\* around its mutated argument
mutator_convert(node, arg) ==
    [arg EXCEPT !.node = IF arg.err = NoError THEN [node EXCEPT !.arg = arg.node]
                         ELSE NullNode]

\* context: the AppendRelInfos and the column names of the parent's entry
RECURSIVE adjust_appendrel_attrs_mutator(_, _)
adjust_appendrel_attrs_mutator(node, context) ==
    IF node.tag = "Var"
    THEN mutator_var(node, context.appinfos,
                     mutator_find_appinfo(node, context.appinfos), context.colnames)
    ELSE IF node.tag = "ConvertRowtypeExpr"
    THEN mutator_convert(node, adjust_appendrel_attrs_mutator(node.arg, context))
    ELSE [err |-> NoError, node |-> node, asserts_ok |-> TRUE, nth |-> 0]

(***************************************************************************)
(* Specification SpecTranslate: make_inh_translation_list on a parent and  *)
(* a child tuple descriptor, then adjust_appendrel_attrs_mutator on a Var  *)
(* with the AppendRelInfo built from the list.                             *)
(***************************************************************************)
MaxAtts == 3     \* attributes of a tuple descriptor

ParentAttributes == {LiveA, LiveB, DroppedAttribute}

ChildAttributes ==
    ParentAttributes
    \cup { Attribute("a", NUMERICOID, NumericTypmod, InvalidOid, FALSE),
           Attribute("a", INT4OID, 8, InvalidOid, FALSE),
           Attribute("b", TEXTOID, -1, "POSIX", FALSE),
           Attribute("c", INT4OID, -1, InvalidOid, FALSE) }

\* live attributes of a relation have distinct names
LiveNamesDistinct(tupdesc) ==
    \A i, j \in 1..Len(tupdesc) :
        /\ i # j /\ ~tupdesc[i].attisdropped /\ ~tupdesc[j].attisdropped
        => tupdesc[i].attname # tupdesc[j].attname

TupleDescsOver(atts, minlen) ==
    { d \in UNION { [1..n -> atts] : n \in minlen..MaxAtts } : LiveNamesDistinct(d) }

\* a Var as the parser builds it
ParserVar(varno, varattno, vartype, varlevelsup) ==
    [varnoold |-> varno] @@ makeVar(varno, varattno, vartype, -1, InvalidOid, varlevelsup)

\* a UNION ALL subquery pulled up into an append relation: the parent and the
\* member are subqueries, which have no dropped columns and no row type
FlattenedTupleDescs == TupleDescsOver({LiveA, LiveB}, 1)

TranslateInit ==
    /\ parse = [resultRelation |-> 0]
    /\ rtable = <<>>
    /\ enable_hashagg = TRUE
    /\ work_mem = 64
    /\ cost_model = HashedCheaper
    /\ stack_garbage = [dLeftGroups |-> 7, dRightGroups |-> 7]
    /\ root = [append_rel_list |-> <<>>, rowMarks |-> <<>>, partColsUpdated |-> FALSE]
    /\ \/ \E old_tupdesc \in TupleDescsOver(ParentAttributes, 1), samerel \in BOOLEAN :
             \E new_tupdesc \in IF samerel THEN {old_tupdesc}
                                ELSE TupleDescsOver(ChildAttributes, 0) :
                /\ call = [samerel |-> samerel, flattened |-> FALSE,
                           parent_relid |-> 1, newvarno |-> 3]
                /\ catalog = <<[attrs |-> old_tupdesc, reltype |-> RowTypeOid(1)],
                               [attrs |-> IF samerel THEN old_tupdesc ELSE new_tupdesc,
                                reltype |-> IF samerel THEN RowTypeOid(1)
                                            ELSE RowTypeOid(2)]>>
       \/ \E tupdesc \in FlattenedTupleDescs :
             /\ call = [samerel |-> FALSE, flattened |-> TRUE,
                        parent_relid |-> 1, newvarno |-> 3]
             /\ catalog = <<[attrs |-> tupdesc, reltype |-> InvalidOid],
                            [attrs |-> tupdesc, reltype |-> InvalidOid]>>
    /\ locks = <<>>
    /\ pc = "start"
    /\ result = NoResult

MakeInhTranslationList ==
    /\ pc = "start"
    /\ ~call.flattened
    /\ result' = make_inh_translation_list(catalog[1].attrs, catalog[2].attrs,
                                           call.samerel, call.newvarno)
    /\ pc' = "translated"
    /\ UNCHANGED <<parse, rtable, enable_hashagg, work_mem, cost_model, root,
                   stack_garbage, call, catalog, locks>>

\* the list pull_up_union_leaf_queries builds for a member subquery: one Var
\* per output column, in order
make_setop_translation_list(targetList, newvarno) ==
    [err |-> NoError,
     vars |-> [k \in 1..Len(targetList) |->
                  makeVar(newvarno, k, targetList[k].atttypid,
                          targetList[k].atttypmod, targetList[k].attcollation, 0)]]

MakeSetopTranslationList ==
    /\ pc = "start"
    /\ call.flattened
    /\ result' = make_setop_translation_list(catalog[2].attrs, call.newvarno)
    /\ pc' = "translated"
    /\ UNCHANGED <<parse, rtable, enable_hashagg, work_mem, cost_model, root,
                   stack_garbage, call, catalog, locks>>

\* the AppendRelInfo expand_single_inheritance_child, or for a subquery
\* pull_up_union_leaf_queries, builds around the list
TranslateAppendRel ==
    [parent_relid |-> call.parent_relid, child_relid |-> call.newvarno,
     parent_reltype |-> catalog[1].reltype, child_reltype |-> catalog[2].reltype,
     translated_vars |-> result.vars, parent_reloid |-> 1]

AdjustAppendrelAttrs ==
    /\ pc = "translated"
    /\ result.err = NoError
    /\ \E varno \in {call.parent_relid, 2}, varattno \in (-1)..(MaxAtts + 1),
          varlevelsup \in {0, 1} :
          result' = [err |-> NoError, vars |-> result.vars,
                     var |-> ParserVar(varno, varattno,
                                       IF varattno = 0 THEN catalog[1].reltype
                                       ELSE INT4OID, varlevelsup),
                     adjusted |->
                        adjust_appendrel_attrs_mutator(
                            ParserVar(varno, varattno,
                                      IF varattno = 0 THEN catalog[1].reltype
                                      ELSE INT4OID, varlevelsup),
                            [appinfos |-> <<TranslateAppendRel>>,
                             colnames |-> [k \in 1..Len(catalog[1].attrs) |->
                                              catalog[1].attrs[k].attname]])]
    /\ pc' = "adjusted"
    /\ UNCHANGED <<parse, rtable, enable_hashagg, work_mem, cost_model, root,
                   stack_garbage, call, catalog, locks>>

TranslateNext ==
    MakeInhTranslationList \/ MakeSetopTranslationList \/ AdjustAppendrelAttrs

SpecTranslate == TranslateInit /\ [][TranslateNext]_vars

(***************************************************************************)
(* Properties of the translation (specification SpecTranslate).            *)
(***************************************************************************)
\* the child's live attribute of that name, 0 if there is none
LiveByName(tupdesc, attname) ==
    IF \E j \in 1..Len(tupdesc) : ~tupdesc[j].attisdropped /\ tupdesc[j].attname = attname
    THEN CHOOSE j \in 1..Len(tupdesc) :
            ~tupdesc[j].attisdropped /\ tupdesc[j].attname = attname
    ELSE 0

\* parent attribute k has a live counterpart of the same name, type, typmod
\* and collation in the child
Inherited(k) ==
    \/ call.samerel
    \/ /\ LiveByName(catalog[2].attrs, catalog[1].attrs[k].attname) # 0
       /\ LET att == catalog[2].attrs[LiveByName(catalog[2].attrs,
                                                 catalog[1].attrs[k].attname)]
          IN  /\ att.atttypid = catalog[1].attrs[k].atttypid
              /\ att.atttypmod = catalog[1].attrs[k].atttypmod
              /\ att.attcollation = catalog[1].attrs[k].attcollation

\* what looking every live parent attribute up by name gives
TranslationByName ==
    [k \in 1..Len(catalog[1].attrs) |->
        IF catalog[1].attrs[k].attisdropped THEN NullNode
        ELSE makeVar(call.newvarno,
                     IF call.samerel THEN k
                     ELSE LiveByName(catalog[2].attrs, catalog[1].attrs[k].attname),
                     catalog[1].attrs[k].atttypid, catalog[1].attrs[k].atttypmod,
                     catalog[1].attrs[k].attcollation, 0)]

\* C19: make_inh_translation_list returns one slot per parent attribute in
\* parent order, the sentinel exactly for a dropped parent attribute and
\* otherwise a reference to the child's live attribute of the same name,
\* which is what a pure lookup by name gives; a missing attribute or a
\* difference of type, typmod or collation raises an internal error.
TranslationListByName ==
    pc \in {"translated", "adjusted"} /\ ~call.flattened =>
        /\ result.err = NoError <=>
              \A k \in 1..Len(catalog[1].attrs) :
                  catalog[1].attrs[k].attisdropped \/ Inherited(k)
        /\ result.err = NoError =>
              /\ Len(result.vars) = Len(catalog[1].attrs)
              /\ result.vars = TranslationByName
              /\ \A k \in 1..Len(result.vars) :
                    result.vars[k] = NullNode <=> catalog[1].attrs[k].attisdropped

TranslationListByNameWitness ==
    /\ pc = "translated"
    /\ result.err = NoError
    /\ ~call.samerel
    /\ Len(result.vars) = 3
    /\ result.vars[2] = NullNode
    /\ result.vars[1] # NullNode /\ result.vars[3] # NullNode
    /\ result.vars[1].varattno = 3 /\ result.vars[3].varattno = 1
    /\ catalog[2].attrs[2].attisdropped

\* C20: a level-0 Var of a mapped parent with positive attribute number k
\* becomes a copy of slot k of the translation list; k beyond the list or a
\* sentinel slot raises an internal error and the list is never read
\* outside its bounds; a system attribute keeps its number and only takes
\* the child's relation id; a Var of an unmapped relation or of an outer
\* query level is returned unchanged.
VarTranslated ==
    pc = "adjusted" =>
        /\ result.adjusted.nth \in 0..Len(result.vars)
        /\ IF result.var.varno # call.parent_relid \/ result.var.varlevelsup > 0
           THEN result.adjusted.err = NoError /\ result.adjusted.node = result.var
           ELSE IF result.var.varattno > 0
           THEN IF \/ result.var.varattno > Len(result.vars)
                   \/ catalog[1].attrs[result.var.varattno].attisdropped
                THEN result.adjusted.err # NoError
                ELSE /\ result.adjusted.err = NoError
                     /\ result.adjusted.node = result.vars[result.var.varattno]
                     /\ result.adjusted.nth = result.var.varattno
           ELSE IF result.var.varattno < 0
           THEN /\ result.adjusted.err = NoError
                /\ result.adjusted.node =
                      [result.var EXCEPT !.varno = call.newvarno,
                                         !.varnoold = call.newvarno]
           ELSE result.adjusted.err = NoError

VarTranslatedWitness ==
    /\ pc = "adjusted"
    /\ result.var.varno = call.parent_relid /\ result.var.varlevelsup = 0
    /\ result.var.varattno = 3
    /\ Len(result.vars) = 3 /\ result.vars[2] = NullNode
    /\ result.adjusted.err = NoError
    /\ result.adjusted.node.varattno = 1
    /\ result.adjusted.node.varno = call.newvarno

(***************************************************************************)
(* Whole-row references (specification SpecTranslate).                     *)
(***************************************************************************)
WholeRowCase ==
    /\ pc = "adjusted"
    /\ result.var.varno = call.parent_relid
    /\ result.var.varlevelsup = 0
    /\ result.var.varattno = 0

\* the whole-row Var of the child, typed with the row type given
ChildWholeRow(reltype) ==
    [result.var EXCEPT !.varno = call.newvarno, !.varnoold = call.newvarno,
                       !.vartype = reltype]

IsConvertRowtype(node) ==
    /\ node.tag = "ConvertRowtypeExpr"
    /\ node.arg = ChildWholeRow(catalog[2].reltype)
    /\ node.resulttype = catalog[1].reltype

\* the slots of the map that belong to live parent columns, in map order
LiveSlots == SelectSeq(result.vars, LAMBDA v : v # NullNode)

IsRowExprOfLiveSlots(node) ==
    /\ node.tag = "RowExpr"
    /\ node.args = LiveSlots
    /\ \A k \in 1..Len(node.args) : node.args[k].varno = call.newvarno
    /\ node.row_typeid = result.var.vartype

\* C21 as stated: a whole-row reference to a mapped parent becomes either
\* the conversion wrapper around the child's whole-row Var or a RowExpr of
\* the live slots of the map, and the map is not read out of bounds.
WholeRowWrappedOrRowExpr ==
    WholeRowCase =>
        /\ result.adjusted.err = NoError
        /\ result.adjusted.nth = 0
        /\ \/ IsConvertRowtype(result.adjusted.node)
           \/ IsRowExprOfLiveSlots(result.adjusted.node)

\* C21: a whole-row reference to a mapped parent becomes the conversion
\* wrapper around the child's whole-row Var typed with the child's row type
\* when the child has a row type that differs from the parent's, the bare
\* whole-row Var of the child when both have the same row type, and a
\* RowExpr of all slots of the map, with the parent's column names, when
\* the child has no row type, in which case the map has no sentinel; the
\* map is never read through list_nth and the Assert holds.
WholeRowTranslated ==
    WholeRowCase =>
        /\ result.adjusted.err = NoError
        /\ result.adjusted.nth = 0
        /\ result.adjusted.asserts_ok
        /\ IF catalog[2].reltype = InvalidOid
           THEN /\ IsRowExprOfLiveSlots(result.adjusted.node)
                /\ LiveSlots = result.vars
                /\ result.adjusted.node.colnames =
                      [k \in 1..Len(catalog[1].attrs) |-> catalog[1].attrs[k].attname]
           ELSE IF catalog[1].reltype # catalog[2].reltype
           THEN IsConvertRowtype(result.adjusted.node)
           ELSE result.adjusted.node = ChildWholeRow(catalog[1].reltype)

WholeRowTranslatedWitness ==
    /\ WholeRowCase
    /\ ~call.flattened /\ ~call.samerel
    /\ Len(catalog[1].attrs) = 3
    /\ catalog[1].attrs[2].attisdropped
    /\ ~catalog[1].attrs[1].attisdropped /\ ~catalog[1].attrs[3].attisdropped
    /\ result.adjusted.node.tag = "ConvertRowtypeExpr"
    /\ result.adjusted.node.arg.vartype = catalog[2].reltype

WholeRowRowExprWitness ==
    /\ WholeRowCase
    /\ call.flattened
    /\ result.adjusted.node.tag = "RowExpr"
    /\ Len(result.adjusted.node.args) = 2

(***************************************************************************)
(* adjust_child_relids.  A Bitmapset is a set of relids; the result names  *)
(* the set returned, whether the pointer returned is the caller's relids   *)
(* (original) and the members of the caller's set when the call returns    *)
(* (input).  bms_del_member and bms_add_member write to the set they are   *)
(* given.                                                                  *)
(***************************************************************************)
bms_is_member(x, a) == x \in a

bms_del_member(a, x) == a \ {x}

bms_add_member(a, x) == a \cup {x}

\* lines 2315-2324: one AppendRelInfo; st.result is the copy made so far
adjust_child_relids_step(relids, appinfo, st) ==
    IF bms_is_member(appinfo.parent_relid, relids)
    THEN [copied |-> TRUE,
          result |-> bms_add_member(
                        bms_del_member(IF st.copied THEN st.result ELSE relids,
                                       appinfo.parent_relid),
                        appinfo.child_relid)]
    ELSE st

\* lines 2311-2325
RECURSIVE adjust_child_relids_loop(_, _, _, _)
adjust_child_relids_loop(relids, appinfos, cnt, st) ==
    IF cnt > Len(appinfos) THEN st
    ELSE adjust_child_relids_loop(relids, appinfos, cnt + 1,
                                  adjust_child_relids_step(relids, appinfos[cnt], st))

\* lines 2327-2332
adjust_child_relids_return(relids, st) ==
    IF st.copied
    THEN [set |-> st.result, original |-> FALSE, input |-> relids]
    ELSE [set |-> relids, original |-> TRUE, input |-> relids]

\* lines 2305-2333
adjust_child_relids(relids, appinfos) ==
    adjust_child_relids_return(relids,
        adjust_child_relids_loop(relids, appinfos, 1,
                                 [copied |-> FALSE, result |-> {}]))

(***************************************************************************)
(* Specification SpecRelids: adjust_child_relids on a relid set and an     *)
(* array of AppendRelInfos, then on the same set with the array reversed.  *)
(***************************************************************************)
MaxRelid == 4    \* range-table indexes
MaxMaps == 2     \* AppendRelInfos handed to adjust_child_relids

\* a child's range-table entry is added after its parent's
RelidMaps ==
    { m \in [parent_relid : 1..MaxRelid, child_relid : 1..MaxRelid] :
         m.parent_relid < m.child_relid }

\* a relation is the child of one AppendRelInfo at most
OneParentEach(appinfos) ==
    \A i, j \in 1..Len(appinfos) :
        i # j => appinfos[i].child_relid # appinfos[j].child_relid

RelidsInit ==
    /\ parse = [resultRelation |-> 0]
    /\ rtable = <<>>
    /\ enable_hashagg = TRUE
    /\ work_mem = 64
    /\ cost_model = HashedCheaper
    /\ stack_garbage = [dLeftGroups |-> 7, dRightGroups |-> 7]
    /\ root = [append_rel_list |-> <<>>, rowMarks |-> <<>>, partColsUpdated |-> FALSE]
    /\ catalog = <<>>
    /\ locks = <<>>
    /\ \E relids \in SUBSET (1..MaxRelid) :
          \E appinfos \in UNION { [1..n -> RelidMaps] : n \in 0..MaxMaps } :
             /\ OneParentEach(appinfos)
             /\ call = [relids |-> relids, appinfos |-> appinfos]
    /\ pc = "start"
    /\ result = NoResult

AdjustChildRelids ==
    /\ pc = "start"
    /\ result' = [first |-> adjust_child_relids(call.relids, call.appinfos)]
    /\ pc' = "adjusted"
    /\ UNCHANGED <<parse, rtable, enable_hashagg, work_mem, cost_model, root,
                   stack_garbage, call, catalog, locks>>

AdjustChildRelidsReversed ==
    /\ pc = "adjusted"
    /\ result' = [first |-> result.first,
                  second |-> adjust_child_relids(call.relids, Reverse(call.appinfos))]
    /\ pc' = "reversed"
    /\ UNCHANGED <<parse, rtable, enable_hashagg, work_mem, cost_model, root,
                   stack_garbage, call, catalog, locks>>

RelidsNext == AdjustChildRelids \/ AdjustChildRelidsReversed

SpecRelids == RelidsInit /\ [][RelidsNext]_vars

(***************************************************************************)
(* Properties of adjust_child_relids (specification SpecRelids).           *)
(***************************************************************************)
MappedParents == { call.appinfos[k].parent_relid : k \in 1..Len(call.appinfos) }

ChildrenOf(parents) ==
    { call.appinfos[k].child_relid :
         k \in { j \in 1..Len(call.appinfos) : call.appinfos[j].parent_relid \in parents } }

Substituted ==
    (call.relids \ MappedParents) \cup ChildrenOf(call.relids \cap MappedParents)

\* a child of one AppendRelInfo is the parent of another
MapsChained ==
    \E i, j \in 1..Len(call.appinfos) :
        call.appinfos[i].child_relid = call.appinfos[j].parent_relid

\* C22: adjust_child_relids returns (S minus P) united with the children of
\* the parents in S intersect P, whatever the order of the maps and also
\* when one map's child is another map's parent; the input set is not
\* modified, and the original object is returned when S has no mapped
\* parent.
ChildRelidsSubstituted ==
    /\ pc \in {"adjusted", "reversed"} =>
          /\ result.first.set = Substituted
          /\ result.first.input = call.relids
          /\ call.relids \cap MappedParents = {} => result.first.original
    /\ pc = "reversed" => result.second.set = result.first.set

\* what holds of C22: the same, for arrays in which no map's child is
\* another map's parent
ChildRelidsSubstitutedUnchained ==
    ~MapsChained => ChildRelidsSubstituted

(***************************************************************************)
(* adjust_inherited_tlist and adjust_appendrel_attrs on a Query.           *)
(***************************************************************************)
\* lines 2426-2439: one non-junk entry; st = [err, tlist, changed_it]
inherited_tlist_resno(st, k, context) ==
    IF st.tlist[k].resno <= 0 \/ st.tlist[k].resno > Len(context.translated_vars)
    THEN [st EXCEPT !.err = "attribute does not exist"]
    ELSE IF context.translated_vars[st.tlist[k].resno].tag # "Var"
    THEN [st EXCEPT !.err = "attribute does not exist"]
    ELSE IF st.tlist[k].resno # context.translated_vars[st.tlist[k].resno].varattno
    THEN [st EXCEPT !.tlist[k].resno =
                        context.translated_vars[st.tlist[k].resno].varattno,
                    !.changed_it = TRUE]
    ELSE st

\* lines 2417-2440
RECURSIVE inherited_tlist_scan(_, _, _)
inherited_tlist_scan(st, k, context) ==
    IF k > Len(st.tlist) \/ st.err # NoError THEN st
    ELSE IF st.tlist[k].resjunk THEN inherited_tlist_scan(st, k + 1, context)
    ELSE inherited_tlist_scan(inherited_tlist_resno(st, k, context), k + 1, context)

\* lines 2456-2467: one pass over the list for attrno
inherited_tlist_pass(tlist, attrno) ==
    SelectSeq(tlist, LAMBDA tle : ~tle.resjunk /\ tle.resno = attrno)

inherited_tlist_more(tlist, attrno) ==
    \E k \in 1..Len(tlist) : ~tlist[k].resjunk /\ tlist[k].resno > attrno

\* lines 2451-2468: the list of non-junk entries and attrno when the loop ends
RECURSIVE inherited_tlist_sort(_, _, _)
inherited_tlist_sort(tlist, attrno, new_tlist) ==
    IF inherited_tlist_more(tlist, attrno)
    THEN inherited_tlist_sort(tlist, attrno + 1,
                              new_tlist \o inherited_tlist_pass(tlist, attrno))
    ELSE [new_tlist |-> new_tlist \o inherited_tlist_pass(tlist, attrno),
          attrno |-> attrno + 1]

\* the junk entries appended with the resnos they came with
inherited_tlist_junk_keep(tlist, sorted) ==
    sorted.new_tlist \o SelectSeq(tlist, LAMBDA tle : tle.resjunk)

\* lines 2470-2482: the junk entries, renumbered from attrno on
inherited_tlist_junk(tlist, sorted) ==
    sorted.new_tlist
    \o [j \in 1..Len(SelectSeq(tlist, LAMBDA tle : tle.resjunk)) |->
           [SelectSeq(tlist, LAMBDA tle : tle.resjunk)[j]
               EXCEPT !.resno = sorted.attrno + j - 1]]

\* lines 2448-2482; same_list: the list returned is the caller's
inherited_tlist_return(scanned, context) ==
    IF scanned.err # NoError
    THEN [err |-> scanned.err, tlist |-> scanned.tlist, same_list |-> FALSE,
          asserts_ok |-> OidIsValid(context.parent_reloid)]
    ELSE IF ~scanned.changed_it
    THEN [err |-> NoError, tlist |-> scanned.tlist, same_list |-> TRUE,
          asserts_ok |-> OidIsValid(context.parent_reloid)]
    ELSE [err |-> NoError,
          tlist |-> inherited_tlist_junk(scanned.tlist,
                       inherited_tlist_sort(scanned.tlist, 1, <<>>)),
          same_list |-> FALSE,
          asserts_ok |-> OidIsValid(context.parent_reloid)]

\* lines 2404-2483
adjust_inherited_tlist(tlist, context) ==
    inherited_tlist_return(
        inherited_tlist_scan([err |-> NoError, tlist |-> tlist, changed_it |-> FALSE],
                             1, context),
        context)

\* query_tree_mutator on the target list: every entry's expression mutated
query_tlist_mutated(targetList, context) ==
    [k \in 1..Len(targetList) |->
        adjust_appendrel_attrs_mutator(targetList[k].expr, context)]

query_tree_mutator_build(query, mutated) ==
    [err |-> FirstErr(mutated),
     asserts_ok |-> \A k \in 1..Len(mutated) : mutated[k].asserts_ok,
     node |-> [query EXCEPT !.targetList =
                  [k \in 1..Len(mutated) |->
                      [query.targetList[k] EXCEPT !.expr = mutated[k].node]]]]

query_tree_mutator(query, context) ==
    query_tree_mutator_build(query, query_tlist_mutated(query.targetList, context))

\* lines 2033-2047: the first AppendRelInfo of the result relation, 0 for none
appendrel_of_result(newnode, appinfos) ==
    IF \E cnt \in 1..Len(appinfos) : newnode.resultRelation = appinfos[cnt].parent_relid
    THEN CHOOSE cnt \in 1..Len(appinfos) :
            /\ newnode.resultRelation = appinfos[cnt].parent_relid
            /\ \A c \in 1..(cnt - 1) : newnode.resultRelation # appinfos[c].parent_relid
    ELSE 0

\* lines 2039-2044
appendrel_query_tlist(mutated, appinfo, adjusted) ==
    [err |-> adjusted.err,
     asserts_ok |-> mutated.asserts_ok /\ adjusted.asserts_ok,
     same_list |-> adjusted.same_list,
     node |-> [mutated.node EXCEPT !.resultRelation = appinfo.child_relid,
                                   !.targetList = adjusted.tlist]]

\* lines 2033-2049
appendrel_query_result(mutated, appinfos, cnt) ==
    IF mutated.err # NoError
    THEN [err |-> mutated.err, asserts_ok |-> mutated.asserts_ok,
          same_list |-> TRUE, node |-> mutated.node]
    ELSE IF cnt = 0
    THEN [err |-> NoError, asserts_ok |-> mutated.asserts_ok,
          same_list |-> TRUE, node |-> mutated.node]
    ELSE IF mutated.node.commandType = "CMD_UPDATE"
    THEN appendrel_query_tlist(mutated, appinfos[cnt],
             adjust_inherited_tlist(mutated.node.targetList, appinfos[cnt]))
    ELSE [err |-> NoError, asserts_ok |-> mutated.asserts_ok, same_list |-> TRUE,
          node |-> [mutated.node EXCEPT !.resultRelation = appinfos[cnt].child_relid]]

appendrel_query(mutated, appinfos) ==
    appendrel_query_result(mutated, appinfos, appendrel_of_result(mutated.node, appinfos))

appendrel_expr(mutated) ==
    [err |-> mutated.err, asserts_ok |-> mutated.asserts_ok, same_list |-> TRUE,
     node |-> mutated.node]

\* line 2019
appendrel_assert(context, res) ==
    [res EXCEPT !.asserts_ok = @ /\ Len(context.appinfos) >= 1]

\* lines 2007-2055; context: the AppendRelInfos and the column names of the
\* parent's range-table entry
adjust_appendrel_attrs(node, context) ==
    IF node.tag = "Query"
    THEN appendrel_assert(context,
             appendrel_query(query_tree_mutator(node, context), context.appinfos))
    ELSE appendrel_assert(context,
             appendrel_expr(adjust_appendrel_attrs_mutator(node, context)))

(***************************************************************************)
(* Specification SpecUpdateTlist: adjust_appendrel_attrs on an UPDATE or   *)
(* SELECT Query whose result relation is the parent (range-table entry 1)  *)
(* or another relation, with the AppendRelInfo of one child.               *)
(***************************************************************************)
MaxJunk == 2     \* junk entries of the target list

UpdateChildAttributes ==
    ParentAttributes \cup { Attribute("c", INT4OID, -1, InvalidOid, FALSE) }

\* the junk entries the rewriter adds: the row identity, the whole row, and
\* further system columns
JunkEntry(j, reltype, resno) ==
    IF j = 1 THEN makeTargetEntry(ParserVar(1, -1, "tid", 0), resno, "ctid", TRUE)
    ELSE IF j = 2 THEN makeTargetEntry(ParserVar(1, 0, reltype, 0), resno, "wholerow", TRUE)
    ELSE makeTargetEntry(ParserVar(1, -j, "oid", 0), resno, "system" \o ToString(j), TRUE)

\* the target list of an UPDATE: the assigned columns in ascending order of
\* attribute number, then the junk entries
UpdateTargetList(resnos, njunk, reltype, natts) ==
    [k \in 1..Len(SortedSeq(resnos)) |->
        makeTargetEntry(makeConst(INT4OID, -1, InvalidOid, SortedSeq(resnos)[k]),
                        SortedSeq(resnos)[k],
                        ToString(SortedSeq(resnos)[k]), FALSE)]
    \o [j \in 1..njunk |-> JunkEntry(j, reltype, natts + j)]

UpdateTlistInit ==
    /\ rtable = <<>>
    /\ enable_hashagg = TRUE
    /\ work_mem = 64
    /\ cost_model = HashedCheaper
    /\ stack_garbage = [dLeftGroups |-> 7, dRightGroups |-> 7]
    /\ locks = <<>>
    /\ \E old_tupdesc \in TupleDescsOver(ParentAttributes, 1) :
          \E new_tupdesc \in TupleDescsOver(UpdateChildAttributes, 1) :
             /\ make_inh_translation_list(old_tupdesc, new_tupdesc, FALSE, 3).err = NoError
             /\ catalog = <<[attrs |-> old_tupdesc, reltype |-> RowTypeOid(1)],
                            [attrs |-> new_tupdesc, reltype |-> RowTypeOid(2)]>>
             /\ root = [append_rel_list |->
                           <<[parent_relid |-> 1, child_relid |-> 3,
                              parent_reltype |-> RowTypeOid(1),
                              child_reltype |-> RowTypeOid(2),
                              translated_vars |->
                                 make_inh_translation_list(old_tupdesc, new_tupdesc,
                                                           FALSE, 3).vars,
                              parent_reloid |-> ToString(1)]>>,
                        rowMarks |-> <<>>, partColsUpdated |-> FALSE]
    /\ \E resnos \in SUBSET (0..(MaxAtts + 1)), njunk \in 0..MaxJunk,
          commandType \in {"CMD_UPDATE", "CMD_SELECT"}, resultRelation \in {1, 2} :
          parse = [tag |-> "Query", commandType |-> commandType,
                   resultRelation |-> resultRelation,
                   targetList |-> UpdateTargetList(resnos, njunk, RowTypeOid(1),
                                                   Len(catalog[1].attrs))]
    /\ call = [colnames |-> [k \in 1..Len(catalog[1].attrs) |->
                                catalog[1].attrs[k].attname]]
    /\ pc = "start"
    /\ result = NoResult

AdjustAppendrelAttrsQuery ==
    /\ pc = "start"
    /\ result' = adjust_appendrel_attrs(parse, [appinfos |-> root.append_rel_list,
                                                colnames |-> call.colnames])
    /\ pc' = "adjusted"
    /\ UNCHANGED <<parse, rtable, enable_hashagg, work_mem, cost_model, root,
                   stack_garbage, call, catalog, locks>>

UpdateTlistNext == AdjustAppendrelAttrsQuery

SpecUpdateTlist == UpdateTlistInit /\ [][UpdateTlistNext]_vars

(***************************************************************************)
(* Properties of adjust_inherited_tlist (specification SpecUpdateTlist).   *)
(***************************************************************************)
InheritedUpdate ==
    /\ pc = "adjusted"
    /\ parse.commandType = "CMD_UPDATE"
    /\ parse.resultRelation = root.append_rel_list[1].parent_relid

TranslatedVars == root.append_rel_list[1].translated_vars

\* the list handed to adjust_inherited_tlist: the expressions are translated
\* already, the resnos are the parent's
TlistGiven ==
    [k \in 1..Len(parse.targetList) |->
        [parse.targetList[k] EXCEPT !.expr =
            adjust_appendrel_attrs_mutator(
                parse.targetList[k].expr,
                [appinfos |-> root.append_rel_list, colnames |-> call.colnames]).node]]

TlistReturned == result.node.targetList

HasTranslation(tle) ==
    /\ tle.resno \in 1..Len(TranslatedVars)
    /\ TranslatedVars[tle.resno] # NullNode

ResnoChanged ==
    \E k \in 1..Len(TlistGiven) :
        /\ ~TlistGiven[k].resjunk
        /\ TlistGiven[k].resno # TranslatedVars[TlistGiven[k].resno].varattno

WithoutResno(tle) == [tle EXCEPT !.resno = 0]

\* position of the returned entry that is the given entry k
ReturnedAs(k) ==
    { j \in 1..Len(TlistReturned) :
         WithoutResno(TlistReturned[j]) = WithoutResno(TlistGiven[k]) }

NonJunkCount == Len(SelectSeq(TlistReturned, LAMBDA tle : ~tle.resjunk))

\* C27: adjust_inherited_tlist returns exactly the entries given; a non-junk
\* entry's resno is the child attribute number of the translation of its
\* parent column; if a resno changed, the non-junk entries come first in
\* strictly ascending resno order and the junk entries follow with
\* consecutive resnos from the largest non-junk resno plus one; if none
\* changed, the list given is returned as it is; a non-junk resno outside
\* the map or on a dropped slot raises an error.
InheritedTlistAdjusted ==
    InheritedUpdate =>
        /\ result.err # NoError <=>
              \E k \in 1..Len(TlistGiven) :
                  ~TlistGiven[k].resjunk /\ ~HasTranslation(TlistGiven[k])
        /\ result.err = NoError =>
              /\ Len(TlistReturned) = Len(TlistGiven)
              /\ \A k \in 1..Len(TlistGiven) : Cardinality(ReturnedAs(k)) = 1
              /\ \A k \in 1..Len(TlistGiven) :
                    ~TlistGiven[k].resjunk =>
                        \A j \in ReturnedAs(k) :
                            TlistReturned[j].resno =
                               TranslatedVars[TlistGiven[k].resno].varattno
              /\ IF ResnoChanged
                 THEN /\ \A j \in 1..Len(TlistReturned) :
                            TlistReturned[j].resjunk <=> j > NonJunkCount
                      /\ \A i, j \in 1..NonJunkCount :
                            i < j => TlistReturned[i].resno < TlistReturned[j].resno
                      /\ \A j \in (NonJunkCount + 1)..Len(TlistReturned) :
                            TlistReturned[j].resno =
                               TlistReturned[NonJunkCount].resno + (j - NonJunkCount)
                      /\ ~result.same_list
                 ELSE /\ TlistReturned = TlistGiven
                      /\ result.same_list

InheritedTlistAdjustedWitness ==
    /\ InheritedUpdate
    /\ result.err = NoError
    /\ ResnoChanged
    /\ Len(TlistGiven) = 4
    /\ TlistGiven[1].resno = 1 /\ TlistGiven[2].resno = 3
    /\ TlistReturned[1].resname = "3" /\ TlistReturned[2].resname = "1"
    /\ TlistReturned[3].resjunk /\ TlistReturned[4].resjunk
    /\ TlistReturned[3].resno # TlistGiven[3].resno


(***************************************************************************)
(* find_appinfos_by_relids and the multi-level translations.  The result   *)
(* of a multi-level translation carries calls: the AppendRelInfo arrays of *)
(* the single-level translations made, in the order they were made.        *)
(***************************************************************************)
\* lines 2544-2561
RECURSIVE find_appinfos_loop(_, _, _, _)
find_appinfos_loop(append_rel_list, relids, k, found) ==
    IF k > Len(append_rel_list)
    THEN [err |-> "did not find all requested child rels in append_rel_list",
          appinfos |-> found]
    ELSE IF ~bms_is_member(append_rel_list[k].child_relid, relids)
    THEN find_appinfos_loop(append_rel_list, relids, k + 1, found)
    ELSE IF Len(found) + 1 = Cardinality(relids)
    THEN [err |-> NoError, appinfos |-> Append(found, append_rel_list[k])]
    ELSE find_appinfos_loop(append_rel_list, relids, k + 1,
                            Append(found, append_rel_list[k]))

\* lines 2534-2562
find_appinfos_by_relids(append_rel_list, relids) ==
    find_appinfos_loop(append_rel_list, relids, 1, <<>>)

\* lines 2361-2366, 2507-2512
immediate_parent_relids(appinfos) ==
    { appinfos[cnt].parent_relid : cnt \in 1..Len(appinfos) }

\* line 2377
relids_multilevel_apply(appinfos, upper) ==
    IF upper.err # NoError THEN upper
    ELSE [err |-> NoError,
          set |-> adjust_child_relids(upper.set, appinfos).set,
          original |-> FALSE,
          calls |-> Append(upper.calls, appinfos)]

RECURSIVE adjust_child_relids_multilevel(_, _, _, _)
\* lines 2368-2377
relids_multilevel_level(proot, relids, top_parent_relids, appinfos) ==
    IF immediate_parent_relids(appinfos) # top_parent_relids
    THEN relids_multilevel_apply(appinfos,
             adjust_child_relids_multilevel(proot, relids,
                                            immediate_parent_relids(appinfos),
                                            top_parent_relids))
    ELSE relids_multilevel_apply(appinfos,
             [err |-> NoError, set |-> relids, original |-> TRUE, calls |-> <<>>])

\* lines 2358-2377
relids_multilevel_found(proot, relids, top_parent_relids, found) ==
    IF found.err # NoError
    THEN [err |-> found.err, set |-> relids, original |-> FALSE, calls |-> <<>>]
    ELSE relids_multilevel_level(proot, relids, top_parent_relids, found.appinfos)

\* lines 2340-2386
adjust_child_relids_multilevel(proot, relids, child_relids, top_parent_relids) ==
    IF relids \cap top_parent_relids = {}
    THEN [err |-> NoError, set |-> relids, original |-> TRUE, calls |-> <<>>]
    ELSE relids_multilevel_found(proot, relids, top_parent_relids,
             find_appinfos_by_relids(proot.append_rel_list, child_relids))

\* line 2520 and the result handed back
attrs_multilevel_result(appinfos, upper, adjusted) ==
    [err |-> adjusted.err, node |-> adjusted.node,
     asserts_ok |-> upper.asserts_ok /\ adjusted.asserts_ok,
     calls |-> Append(upper.calls, appinfos)]

\* line 2520; proot.colnames[rti]: the column names of range-table entry rti
attrs_multilevel_apply(proot, appinfos, upper) ==
    IF upper.err # NoError THEN upper
    ELSE attrs_multilevel_result(appinfos, upper,
             adjust_appendrel_attrs(upper.node,
                 [appinfos |-> appinfos,
                  colnames |-> proot.colnames[appinfos[1].parent_relid]]))

\* the child's own level applied to the node without the levels above it
attrs_multilevel_level_flat(proot, node, top_parent_relids, appinfos) ==
    attrs_multilevel_apply(proot, appinfos,
        [err |-> NoError, node |-> node, asserts_ok |-> TRUE, calls |-> <<>>])

RECURSIVE adjust_appendrel_attrs_multilevel(_, _, _, _)
\* lines 2514-2520
attrs_multilevel_level(proot, node, top_parent_relids, appinfos) ==
    IF immediate_parent_relids(appinfos) # top_parent_relids
    THEN attrs_multilevel_apply(proot, appinfos,
             adjust_appendrel_attrs_multilevel(proot, node,
                                               immediate_parent_relids(appinfos),
                                               top_parent_relids))
    ELSE attrs_multilevel_apply(proot, appinfos,
             [err |-> NoError, node |-> node, asserts_ok |-> TRUE, calls |-> <<>>])

\* lines 2504-2520
attrs_multilevel_found(proot, node, top_parent_relids, found) ==
    IF found.err # NoError
    THEN [err |-> found.err, node |-> node, asserts_ok |-> TRUE, calls |-> <<>>]
    ELSE attrs_multilevel_level(proot, node, top_parent_relids, found.appinfos)

\* line 2502
attrs_multilevel_assert(child_relids, top_parent_relids, res) ==
    [res EXCEPT !.asserts_ok =
        @ /\ Cardinality(child_relids) = Cardinality(top_parent_relids)]

\* lines 2492-2525
adjust_appendrel_attrs_multilevel(proot, node, child_relids, top_parent_relids) ==
    attrs_multilevel_assert(child_relids, top_parent_relids,
        attrs_multilevel_found(proot, node, top_parent_relids,
            find_appinfos_by_relids(proot.append_rel_list, child_relids)))

(***************************************************************************)
(* Specification SpecMultilevel: a partition hierarchy below range-table   *)
(* entry 1 as expand_partitioned_rtentry records it (a child's entry comes *)
(* after its parent's, one AppendRelInfo per child), then one multi-level  *)
(* translation of a Var or of a relid set from an ancestor to a            *)
(* descendant.                                                             *)
(***************************************************************************)
MaxLevels == 3   \* partition levels below the top parent

\* the column orders a partition can have
PartitionTupleDescs ==
    { <<LiveA, LiveB>>, <<LiveB, LiveA>>, <<LiveA, DroppedAttribute, LiveB>>,
      <<DroppedAttribute, LiveB, LiveA>> }

\* the parent of each relation but the first, which is the top parent
Hierarchies(n) == { par \in [2..n -> 1..(n - 1)] : \A i \in 2..n : par[i] < i }

HierarchyAppendRel(cat, par, child) ==
    [parent_relid |-> par[child], child_relid |-> child,
     parent_reltype |-> cat[par[child]].reltype, child_reltype |-> cat[child].reltype,
     translated_vars |->
        make_inh_translation_list(cat[par[child]].attrs, cat[child].attrs,
                                  FALSE, child).vars,
     parent_reloid |-> ToString(par[child])]

MultilevelInit ==
    /\ parse = [resultRelation |-> 0]
    /\ enable_hashagg = TRUE
    /\ work_mem = 64
    /\ cost_model = HashedCheaper
    /\ stack_garbage = [dLeftGroups |-> 7, dRightGroups |-> 7]
    /\ locks = <<>>
    /\ \E n \in 2..(MaxLevels + 1) :
          \E par \in Hierarchies(n), descs \in [1..n -> PartitionTupleDescs] :
             /\ catalog = [i \in 1..n |-> [attrs |-> descs[i], reltype |-> RowTypeOid(i)]]
             /\ rtable = [i \in 1..n |->
                             [rtekind |-> "RTE_RELATION", relid |-> i,
                              colnames |-> [k \in 1..Len(descs[i]) |-> descs[i][k].attname]]]
             /\ root = [append_rel_list |->
                           [i \in 1..(n - 1) |-> HierarchyAppendRel(catalog, par, i + 1)],
                        rowMarks |-> <<>>, partColsUpdated |-> FALSE]
    /\ call = [rti |-> 0]
    /\ pc = "start"
    /\ result = NoResult

\* the relations above rel, nearest first
RECURSIVE Ancestors(_)
Ancestors(rel) ==
    IF rel = 1 THEN <<>>
    ELSE <<root.append_rel_list[rel - 1].parent_relid>>
         \o Ancestors(root.append_rel_list[rel - 1].parent_relid)

PlannerRoot ==
    [append_rel_list |-> root.append_rel_list,
     colnames |-> [i \in 1..Len(rtable) |-> rtable[i].colnames]]

AdjustAppendrelAttrsMultilevel ==
    /\ pc = "start"
    /\ \E child \in 2..Len(rtable) :
          \E a \in 1..Len(Ancestors(child)), varno \in 1..Len(rtable),
             varattno \in (-1)..(MaxAtts + 1) :
             /\ call' = [child |-> child, top |-> Ancestors(child)[a],
                         node |-> ParserVar(varno, varattno,
                                            IF varattno = 0 THEN catalog[varno].reltype
                                            ELSE INT4OID, 0)]
             /\ result' = adjust_appendrel_attrs_multilevel(
                              PlannerRoot,
                              ParserVar(varno, varattno,
                                        IF varattno = 0 THEN catalog[varno].reltype
                                        ELSE INT4OID, 0),
                              {child}, {Ancestors(child)[a]})
    /\ pc' = "translated"
    /\ UNCHANGED <<parse, rtable, enable_hashagg, work_mem, cost_model, root,
                   stack_garbage, catalog, locks>>

AdjustChildRelidsMultilevel ==
    /\ pc = "start"
    /\ \E child \in 2..Len(rtable) :
          \E a \in 1..Len(Ancestors(child)), relids \in SUBSET (1..Len(rtable)) :
             /\ call' = [child |-> child, top |-> Ancestors(child)[a],
                         relids |-> relids]
             /\ result' = adjust_child_relids_multilevel(
                              PlannerRoot, relids, {child}, {Ancestors(child)[a]})
    /\ pc' = "substituted"
    /\ UNCHANGED <<parse, rtable, enable_hashagg, work_mem, cost_model, root,
                   stack_garbage, catalog, locks>>

MultilevelNext == AdjustAppendrelAttrsMultilevel \/ AdjustChildRelidsMultilevel

SpecMultilevel == MultilevelInit /\ [][MultilevelNext]_vars

(***************************************************************************)
(* Properties of the multi-level translations (SpecMultilevel).            *)
(***************************************************************************)
\* the relations from just below top down to rel
RECURSIVE ChainBelow(_, _)
ChainBelow(top, rel) ==
    IF rel = top THEN <<>>
    ELSE Append(ChainBelow(top, root.append_rel_list[rel - 1].parent_relid), rel)

Chain == ChainBelow(call.top, call.child)

\* one single-level translation per level, the top level first
LevelByLevel ==
    /\ Len(result.calls) = Len(Chain)
    /\ \A j \in 1..Len(Chain) :
          result.calls[j] = <<root.append_rel_list[Chain[j] - 1]>>

\* the attribute number the maps of levels j.. of the chain lead to
RECURSIVE ComposedAttno(_, _)
ComposedAttno(attno, j) ==
    IF j > Len(Chain) THEN attno
    ELSE ComposedAttno(
             root.append_rel_list[Chain[j] - 1].translated_vars[attno].varattno, j + 1)

RECURSIVE ConversionDepth(_)
ConversionDepth(node) ==
    IF node.tag = "ConvertRowtypeExpr" THEN 1 + ConversionDepth(node.arg) ELSE 0

RECURSIVE ConvertedVar(_)
ConvertedVar(node) ==
    IF node.tag = "ConvertRowtypeExpr" THEN ConvertedVar(node.arg) ELSE node

TopAttribute == catalog[call.top].attrs[call.node.varattno]

\* C23: for a child k >= 1 levels below the top parent, both multi-level
\* functions make exactly k single-level translations, the top level
\* first; a Var of the top parent becomes what the composition of the
\* levels' maps gives, a Var of the child alone with the leaf's attribute
\* number of the same-named column (a whole-row Var: the child's whole-row
\* Var under one conversion per level, a system column: the same column of
\* the child); a relid set holding the top parent gets the child in place
\* of the top parent, and one that does not overlap the top parent is
\* returned unchanged.
MultilevelComposes ==
    /\ pc = "translated" =>
          /\ result.asserts_ok
          /\ IF call.node.varno \in { Chain[j] : j \in 1..Len(Chain) }
             THEN TRUE
             ELSE IF call.node.varno # call.top
             THEN /\ result.err = NoError /\ LevelByLevel
                  /\ result.node = call.node
             ELSE IF call.node.varattno > 0
             THEN IF \/ call.node.varattno > Len(catalog[call.top].attrs)
                     \/ TopAttribute.attisdropped
                  THEN result.err # NoError
                  ELSE /\ result.err = NoError /\ LevelByLevel
                       /\ result.node =
                             makeVar(call.child,
                                     LiveByName(catalog[call.child].attrs,
                                                TopAttribute.attname),
                                     TopAttribute.atttypid, TopAttribute.atttypmod,
                                     TopAttribute.attcollation, 0)
                       /\ result.node.varattno = ComposedAttno(call.node.varattno, 1)
             ELSE IF call.node.varattno = 0
             THEN /\ result.err = NoError /\ LevelByLevel
                  /\ ConversionDepth(result.node) = Len(Chain)
                  /\ result.node.resulttype = catalog[call.top].reltype
                  /\ ConvertedVar(result.node) =
                        [call.node EXCEPT !.varno = call.child,
                                          !.varnoold = call.child,
                                          !.vartype = catalog[call.child].reltype]
             ELSE /\ result.err = NoError /\ LevelByLevel
                  /\ result.node = [call.node EXCEPT !.varno = call.child,
                                                     !.varnoold = call.child]
    /\ pc = "substituted" =>
          /\ result.err = NoError
          /\ IF call.top \in call.relids
             THEN /\ LevelByLevel
                  /\ result.set =
                        (call.relids \ ({call.top} \cup { Chain[j] : j \in 1..Len(Chain) }))
                        \cup {call.child}
             ELSE /\ result.set = call.relids
                  /\ result.original
                  /\ result.calls = <<>>

MultilevelComposesWitness ==
    /\ pc = "translated"
    /\ Len(Chain) = 3
    /\ call.node.varno = call.top /\ call.node.varattno = 3
    /\ result.err = NoError
    /\ result.node.varno = call.child /\ result.node.varattno = 2
    /\ result.calls[1][1].translated_vars[3].varattno = 1
    /\ result.calls[2][1].translated_vars[1].varattno = 3

MultilevelRelidsWitness ==
    /\ pc = "substituted"
    /\ Len(Chain) = 2
    /\ call.relids = {call.top, 4}
    /\ call.child # 4
    /\ result.set = {call.child, 4}

(***************************************************************************)
(* Specification SpecRecursion: plan_set_operations on a recursive UNION,  *)
(* generate_recursion_path taken in its three steps: the left branch       *)
(* (lines 523-530), the right branch (531-537) and the RecursiveUnion path *)
(* (542-613).  call holds the function's locals between the steps.         *)
(***************************************************************************)
RecursionInit ==
    /\ \E ncols \in 0..MaxCols :
          /\ \E pattern \in IF ncols = 0 THEN {<<"a", "b", "a", "c">>}
                            ELSE LeafPatterns :
                rtable = MakeRTable(pattern, ncols)
          /\ parse \in { t \in SetOpTrees(rtable, ncols) : t.op = "UNION" }
    /\ stack_garbage \in {[dLeftGroups |-> 7, dRightGroups |-> 5000],
                          [dLeftGroups |-> 5000, dRightGroups |-> 7]}
    /\ enable_hashagg \in BOOLEAN
    /\ work_mem = 64
    /\ cost_model = HashedCheaper
    /\ \E tf \in {ZeroFraction, [num |-> 10, den |-> 1]} :
          root = [tuple_fraction |-> tf, non_recursive_path |-> NoPath,
                  hasRecursion |-> TRUE, wt_param_id |-> 0,
                  processed_tlist |-> <<>>]
    /\ call = [l |-> NoResult, r |-> NoResult]
    /\ pc = "start"
    /\ result = NoResult
    /\ catalog = <<>>
    /\ locks = <<>>

\* lines 179-185, 204-206
RecursionRefnames == rtable[LeftmostLeaf(parse.larg).rtindex].targetList

\* the left branch planned, its path not handed to the right branch
RecursionLeftUnset ==
    /\ pc = "start"
    /\ root.hasRecursion
    /\ LET l == recurse_set_operations(parse.larg, root, parse.colTypes,
                                       parse.colCollations, FALSE, -1,
                                       RecursionRefnames, FALSE)
       IN  /\ call' = [call EXCEPT !.l = l]
           /\ root' = l.root
           /\ pc' = IF l.err = NoError THEN "right" ELSE "failed"
           /\ result' = IF l.err = NoError THEN result ELSE Failed(l.err, l.root)
    /\ UNCHANGED <<parse, rtable, enable_hashagg, work_mem, cost_model,
                   stack_garbage, catalog, locks>>

\* lines 523-530
RecursionLeft ==
    /\ pc = "start"
    /\ root.hasRecursion
    /\ LET l == recurse_set_operations(parse.larg, root, parse.colTypes,
                                       parse.colCollations, FALSE, -1,
                                       RecursionRefnames, FALSE)
       IN  /\ call' = [call EXCEPT !.l = l]
           /\ root' = IF l.err = NoError
                      THEN [l.root EXCEPT !.non_recursive_path = l.path]
                      ELSE l.root
           /\ pc' = IF l.err = NoError THEN "right" ELSE "failed"
           /\ result' = IF l.err = NoError THEN result ELSE Failed(l.err, l.root)
    /\ UNCHANGED <<parse, rtable, enable_hashagg, work_mem, cost_model,
                   stack_garbage, catalog, locks>>

\* lines 531-537
RecursionRight ==
    /\ pc = "right"
    /\ LET r == recurse_set_operations(parse.rarg, root, parse.colTypes,
                                       parse.colCollations, FALSE, -1,
                                       RecursionRefnames, FALSE)
       IN  /\ call' = [call EXCEPT !.r = r]
           /\ root' = IF r.err = NoError
                      THEN [r.root EXCEPT !.non_recursive_path = NoPath]
                      ELSE r.root
           /\ pc' = IF r.err = NoError THEN "union" ELSE "failed"
           /\ result' = IF r.err = NoError THEN result ELSE Failed(r.err, r.root)
    /\ UNCHANGED <<parse, rtable, enable_hashagg, work_mem, cost_model,
                   stack_garbage, catalog, locks>>

\* lines 542-613, then 225 of plan_set_operations
RecursionUnion ==
    /\ pc = "union"
    /\ LET res == generate_recursion_path_append(parse, root, RecursionRefnames,
                                                 call.l, call.r)
       IN  /\ result' = res
           /\ root' = IF res.err = NoError
                      THEN [res.root EXCEPT !.processed_tlist = res.tlist]
                      ELSE res.root
           /\ pc' = IF res.err = NoError THEN "done" ELSE "failed"
    /\ UNCHANGED <<parse, rtable, enable_hashagg, work_mem, cost_model,
                   stack_garbage, call, catalog, locks>>

RecursionNext == RecursionLeft \/ RecursionRight \/ RecursionUnion

SpecRecursion == RecursionInit /\ [][RecursionNext]_vars

(***************************************************************************)
(* Properties of generate_recursion_path (specification SpecRecursion).    *)
(***************************************************************************)
\* the subquery plans under a path; each remembers the non_recursive_path
\* it was planned under
RECURSIVE LeafPlans(_)
LeafPlans(path) ==
    IF path.pathtype = "Subquery" THEN {path}
    ELSE IF path.pathtype = "Append"
    THEN UNION { LeafPlans(path.subpaths[i]) : i \in 1..Len(path.subpaths) }
    ELSE IF path.pathtype = "RecursiveUnion"
    THEN LeafPlans(path.leftpath) \cup LeafPlans(path.rightpath)
    ELSE LeafPlans(path.subpath)

LeftPlanned == pc \in {"right", "union", "done"}

RightPlanned == pc \in {"union", "done"}

NonRecursivePathScoped ==
    /\ pc = "right" => root.non_recursive_path = call.l.path /\ call.l.path # NoPath
    /\ pc \in {"start", "union", "done"} => root.non_recursive_path = NoPath
    /\ LeftPlanned =>
          \A leaf \in LeafPlans(call.l.path) : leaf.non_recursive_path = NoPath
    /\ RightPlanned =>
          \A leaf \in LeafPlans(call.r.path) :
              leaf.non_recursive_path = call.l.path
    /\ pc = "done" =>
          /\ result.path.pathtype = "RecursiveUnion"
          /\ result.path.leftpath = strip_remote_subquery(call.l.path)
          /\ result.path.rightpath = strip_remote_subquery(call.r.path)

\* the branches are planned one after the other, the left one first, and
\* the left branch's result is not touched once the right one is planned
LeftThenRight ==
    /\ pc' = "right" => pc = "start" /\ call.r = NoResult
    /\ pc' = "union" => pc = "right" /\ call'.l = call.l
    /\ pc' = "done" => pc = "union" /\ call' = call

\* C24: the left branch is planned to the end before the planning of the
\* right branch starts; root->non_recursive_path is the left branch's path
\* exactly while the right branch is planned, so every subquery of the
\* right branch is planned under it and none of the left branch is; it is
\* empty again before the RecursiveUnion path is built and after
\* generate_recursion_path returns.
RecursionPathScoped == [](NonRecursivePathScoped) /\ [][LeftThenRight]_vars

RecursionPathScopedWitness ==
    /\ pc = "done"
    /\ root.non_recursive_path = NoPath
    /\ IsSetOperationStmt(parse.larg) /\ IsSetOperationStmt(parse.rarg)
    /\ Cardinality(LeafPlans(call.r.path)) = 2
    /\ \A leaf \in LeafPlans(call.r.path) :
          leaf.non_recursive_path.pathtype \in {"Append", "Agg", "SetOp", "Unique"}

(***************************************************************************)
(* Properties of generate_nonunion_path (specification Spec).              *)
(***************************************************************************)
\* the SetOp command of an INTERSECT or EXCEPT node, from its operator and
\* its ALL flag
CommandOf(op) ==
    IF op.op = "INTERSECT"
    THEN (IF op.all THEN "SETOPCMD_INTERSECT_ALL" ELSE "SETOPCMD_INTERSECT")
    ELSE (IF op.all THEN "SETOPCMD_EXCEPT_ALL" ELSE "SETOPCMD_EXCEPT")

\* the path is a SetOp step over the Append of the two flagged branches (a
\* Sort may stand between them), its command is the node's, and its flag
\* column is the junk entry that follows the declared columns
IsSetOpStep(e) ==
    /\ e.path.pathtype = "SetOp"
    /\ e.path.cmd = CommandOf(e.op)
    /\ \/ e.path.subpath.pathtype = "Append"
       \/ /\ e.path.subpath.pathtype = "Sort"
          /\ e.path.subpath.subpath.pathtype = "Append"
    /\ AppendOf(e.path).subpaths \in {<<e.lpath, e.rpath>>, <<e.rpath, e.lpath>>}
    /\ FlagOf(e.lpath) = 0 /\ FlagOf(e.rpath) = 1
    /\ e.path.flagColIdx = Len(e.op.colTypes) + 1
    /\ Len(e.tlist) = e.path.flagColIdx
    /\ e.tlist[e.path.flagColIdx].resjunk
    /\ e.tlist[e.path.flagColIdx].resno = e.path.flagColIdx
    /\ AppendOf(e.path).pathtarget = create_pathtarget(e.tlist)

\* C25: for every INTERSECT or EXCEPT node, ALL or not, with any column
\* list, the path generate_nonunion_path returns is a SetOp step whose
\* command matches the operator and the ALL flag, over the Append of the two
\* flagged branches, with flag column index = number of declared columns
\* plus one = resno of the junk flag entry of the Append's column list; no
\* such node yields the bare Append.
NonunionSetOpStep ==
    \A i \in CallsOf("generate_nonunion_path") : IsSetOpStep(result.calls[i])

\* the same for nodes that declare at least one output column
NonunionSetOpStepWithColumns ==
    \A i \in CallsOf("generate_nonunion_path") :
        result.calls[i].op.colTypes # <<>> => IsSetOpStep(result.calls[i])

\* a node with columns planned as a sorted SetOp step
NonunionSetOpStepWitness ==
    \E i \in CallsOf("generate_nonunion_path") :
        /\ result.calls[i].op.colTypes # <<>>
        /\ result.calls[i].op.all
        /\ IsSetOpStep(result.calls[i])
        /\ result.calls[i].path.subpath.pathtype = "Sort"

\* a node without columns returns the bare Append of its branches
NonunionBareAppend ==
    \E i \in CallsOf("generate_nonunion_path") :
        /\ result.calls[i].op.colTypes = <<>>
        /\ result.calls[i].path.pathtype = "Append"
        /\ result.calls[i].punt

\* the group estimate a branch reports: lines 388-399 for a leaf, 694-695
\* for a UNION, 863-864 for an INTERSECT or EXCEPT
BranchGroups(node, path) ==
    IF IsRangeTblRef(node)
    THEN (IF rtable[node.rtindex].grouped THEN rtable[node.rtindex].rows
          ELSE rtable[node.rtindex].ndistinct)
    ELSE IF node.op = "UNION" THEN StripProjection(path).rows
    ELSE IF StripProjection(path).pathtype = "SetOp"
    THEN StripProjection(path).numGroups
    ELSE -1

\* the left branch's estimate for EXCEPT, the smaller one for INTERSECT
GroupBasis(e) ==
    IF e.op.op = "EXCEPT" THEN BranchGroups(e.op.larg, e.lpath)
    ELSE Min(BranchGroups(e.op.larg, e.lpath), BranchGroups(e.op.rarg, e.rpath))

\* the output-row estimate that goes with it
OutputRowBasis(e) ==
    IF ~e.op.all THEN GroupBasis(e)
    ELSE IF e.op.op = "EXCEPT" THEN e.lpath.rows
    ELSE Min(e.lpath.rows, e.rpath.rows)

HasSortStage(path) == path.subpath.pathtype = "Sort"

\* what the chooser answers when it is handed the group basis
ChooserAnswer(e) ==
    choose_hashed_setop(e.root_out, e.path.distinctList, AppendOf(e.path),
                        GroupBasis(e), OutputRowBasis(e),
                        IF e.op.op = "INTERSECT" THEN "INTERSECT" ELSE "EXCEPT")

SetOpEstimated(e) ==
    /\ e.dNumGroups = GroupBasis(e)
    /\ e.path.numGroups = GroupBasis(e)
    /\ e.path.rows = OutputRowBasis(e)
    /\ e.use_hash = ChooserAnswer(e).use_hash
    /\ HasSortStage(e.path) <=> ~e.use_hash
    /\ (e.path.strategy = "SETOP_HASHED") <=> ~HasSortStage(e.path)
    /\ e.path.strategy \in {"SETOP_HASHED", "SETOP_SORTED"}

\* C26: in generate_nonunion_path the group estimate handed to the chooser
\* and to the SetOp step is the left branch's estimate for EXCEPT and the
\* smaller of the two branches' estimates for INTERSECT; a Sort stage stands
\* between the Append and the SetOp step if and only if the chooser
\* rejected hashing, and the SetOp strategy is hashed exactly when there is
\* no Sort stage.
NonunionGroupBasis ==
    \A i \in CallsOf("generate_nonunion_path") :
        result.calls[i].path.pathtype = "SetOp" => SetOpEstimated(result.calls[i])

\* an EXCEPT whose left branch has the larger estimate, sorted because the
\* chooser rejected hashing
NonunionGroupBasisWitness ==
    \E i \in CallsOf("generate_nonunion_path") :
        LET e == result.calls[i]
        IN  /\ e.op.op = "EXCEPT"
            /\ e.path.pathtype = "SetOp"
            /\ BranchGroups(e.op.larg, e.lpath) > BranchGroups(e.op.rarg, e.rpath)
            /\ BranchGroups(e.op.rarg, e.rpath) > 0
            /\ e.path.numGroups = BranchGroups(e.op.larg, e.lpath)
            /\ ~e.use_hash /\ HasSortStage(e.path)

\* an INTERSECT planned hashed on the right branch's smaller estimate
NonunionGroupBasisHashed ==
    \E i \in CallsOf("generate_nonunion_path") :
        LET e == result.calls[i]
        IN  /\ e.op.op = "INTERSECT"
            /\ e.path.pathtype = "SetOp"
            /\ BranchGroups(e.op.larg, e.lpath) > BranchGroups(e.op.rarg, e.rpath)
            /\ e.path.numGroups = BranchGroups(e.op.rarg, e.rpath)
            /\ e.use_hash /\ ~HasSortStage(e.path)

(***************************************************************************)
(* root->tuple_fraction while a set-operation tree is planned              *)
(* (specification Spec).                                                   *)
(***************************************************************************)
\* the tuple_fraction each leaf subquery is to be planned under when the
\* node is entered with f: a UNION ALL hands f on, every other node 0
RECURSIVE FractionSeen(_, _)
FractionSeen(node, f) ==
    IF IsRangeTblRef(node) THEN {<<node.rtindex, f>>}
    ELSE IF node.op = "UNION" /\ node.all
    THEN FractionSeen(node.larg, f) \cup FractionSeen(node.rarg, f)
    ELSE FractionSeen(node.larg, ZeroFraction) \cup FractionSeen(node.rarg, ZeroFraction)

\* every call of generate_union_path and generate_nonunion_path returns
\* with the value it was entered with, and each leaf was planned under the
\* value its position in the tree prescribes
FractionRestored ==
    Planned =>
       /\ \A i \in CallsOf("generate_union_path") \cup CallsOf("generate_nonunion_path") :
             result.calls[i].root_out.tuple_fraction
                = result.calls[i].root_in.tuple_fraction
       /\ \A leaf \in LeafPlans(result.path) :
             <<leaf.rtindex, leaf.tuple_fraction>>
                \in FractionSeen(parse, root.tuple_fraction)
       /\ Cardinality(LeafPlans(result.path)) = Len(LeafSeq(parse))

\* planning does not change the field
FractionKept ==
    result'.err = NoError => root'.tuple_fraction = root.tuple_fraction

\* C28: planning a set-operation tree leaves root->tuple_fraction unchanged:
\* on every normal return of generate_union_path and generate_nonunion_path,
\* the early return with nothing to group on included, the value is the one
\* at entry; the children of a plain UNION, INTERSECT or EXCEPT are planned
\* with 0, the children of a UNION ALL with the value their parent saw.
TupleFractionRestored == [](FractionRestored) /\ [][FractionKept]_vars

\* a UNION ALL entered with a non-zero fraction, one arm a leaf planned under
\* that fraction, the other an INTERSECT or EXCEPT whose leaves were planned
\* under 0, and the fraction back in place at the end
TupleFractionRestoredWitness ==
    /\ Planned
    /\ root.tuple_fraction # ZeroFraction
    /\ parse.op = "UNION" /\ parse.all
    /\ \E leaf \in LeafPlans(result.path) : leaf.tuple_fraction = root.tuple_fraction
    /\ \E leaf \in LeafPlans(result.path) : leaf.tuple_fraction = ZeroFraction
    /\ \E i \in CallsOf("generate_nonunion_path") :
          /\ result.calls[i].root_in.tuple_fraction # ZeroFraction
          /\ result.calls[i].root_out.tuple_fraction # ZeroFraction

\* the early return of generate_nonunion_path entered with a non-zero
\* fraction
TupleFractionPuntWitness ==
    \E i \in CallsOf("generate_nonunion_path") :
        /\ result.calls[i].punt
        /\ result.calls[i].root_in.tuple_fraction # ZeroFraction
        /\ result.calls[i].root_out = result.calls[i].root_in

(***************************************************************************)
(* The group estimates recurse_set_operations reports (specification       *)
(* Spec).                                                                  *)
(***************************************************************************)
SetOpCalls == CallsOf("generate_union_path") \cup CallsOf("generate_nonunion_path")

\* a node asked for its estimate has written it, both estimates of an
\* INTERSECT or EXCEPT were written by its branches, and no unwritten one
\* was read
EstimatesWritten(withColumns) ==
    /\ \A i \in SetOpCalls :
          (withColumns => result.calls[i].op.colTypes # <<>>)
             => (result.calls[i].wantNumGroups => result.calls[i].numGroupsSet)
    /\ \A i \in CallsOf("generate_nonunion_path") :
          (withColumns => result.calls[i].op.colTypes # <<>>)
             => result.calls[i].lset /\ result.calls[i].rset
    /\ Planned /\ (withColumns => parse.colTypes # <<>>) => ~result.uninit_read

\* C29: whenever recurse_set_operations is asked for a group estimate it
\* has written *pNumGroups before it returns normally, for every node kind
\* and every column list (leaf, UNION, INTERSECT, EXCEPT, a node with
\* nothing to group on included); so dLeftGroups and dRightGroups are
\* always initialised when generate_nonunion_path compares them.
NumGroupsAlwaysWritten == EstimatesWritten(FALSE)

\* the same for nodes that declare at least one output column
NumGroupsWrittenWithColumns == EstimatesWritten(TRUE)

\* an INTERSECT or EXCEPT that compares or uses an estimate its branch, an
\* INTERSECT or EXCEPT without columns, never wrote
NumGroupsUnwritten ==
    /\ Planned /\ result.uninit_read
    /\ \E i \in CallsOf("generate_nonunion_path") :
          /\ result.calls[i].wantNumGroups /\ ~result.calls[i].numGroupsSet
          /\ result.calls[i].punt
    /\ \E i \in CallsOf("generate_nonunion_path") :
          /\ ~result.calls[i].lset \/ ~result.calls[i].rset
          /\ \/ result.calls[i].dLeftGroups = stack_garbage.dLeftGroups
             \/ result.calls[i].dRightGroups = stack_garbage.dRightGroups

\* estimates written by a leaf, a UNION and an INTERSECT or EXCEPT with
\* columns
NumGroupsWrittenWitness ==
    /\ \E i \in CallsOf("generate_nonunion_path") :
          /\ result.calls[i].op.colTypes # <<>>
          /\ result.calls[i].wantNumGroups /\ result.calls[i].numGroupsSet
    /\ \E i \in CallsOf("generate_nonunion_path") :
          /\ result.calls[i].lset /\ result.calls[i].rset
          /\ IsRangeTblRef(result.calls[i].op.rarg)

(***************************************************************************)
(* The children of the AppendRelInfos (specification SpecExpand).          *)
(***************************************************************************)
\* the range-table entry an AppendRelInfo names as its child
ChildEntry(k) == rtable[AppendRels[k].child_relid]

\* paths will be built for the entry: the test of line 1780
PathsBuilt(rte) == rte.relkind # RELKIND_PARTITIONED_TABLE \/ rte.inh

\* C30: after the expansion the child entry of every AppendRelInfo is a
\* relation for which paths will be built: it is not a partitioned table,
\* or it is a partitioned table whose inh flag is true; no AppendRelInfo
\* points to a partitioned child whose inh flag is false, also when an
\* intermediate partitioned partition has no partitions or only other
\* sessions' temporary ones.
AppendChildHasPaths ==
    pc = "done" => \A k \in 1..Len(AppendRels) : PathsBuilt(ChildEntry(k))

\* the children that fail the test are exactly the partitioned partitions
\* that were given no AppendRelInfo of their own
AppendChildHasPathsOrNoPartition ==
    pc = "done" =>
        \A k \in 1..Len(AppendRels) :
            \/ PathsBuilt(ChildEntry(k))
            \/ /\ ~IsAppendParent(AppendRels[k].child_relid)
               /\ ChildEntry(k).relid # rtable[AppendRels[k].parent_relid].relid

\* a partitioned partition without partitions of its own is the child of an
\* AppendRelInfo, with inh cleared
AppendChildWithoutPaths ==
    /\ pc = "done"
    /\ \E k \in 1..Len(AppendRels) :
          /\ ChildEntry(k).relkind = RELKIND_PARTITIONED_TABLE
          /\ ~ChildEntry(k).inh
          /\ ~IsAppendParent(AppendRels[k].child_relid)
          /\ rtable[AppendRels[k].parent_relid].relkind = RELKIND_PARTITIONED_TABLE

====
